---------------------------- MODULE Spec2Model ----------------------------
(***************************************************************************)
(* A model of m2::CSVTable (src/CSVTable.hpp): the dynamically typed cell, *)
(* the table storage (col_names, col_map, rows) and the schema, row and    *)
(* relational operations on it.                                            *)
(*                                                                         *)
(* Texts (std::string) are sequences of one-character strings, so that     *)
(* splitting, quote stripping, parsing and the "_other" suffixing are      *)
(* computed character by character as the code computes them.              *)
(* Indices stored in col_map are zero-based as in the code; TLA+ sequences *)
(* are one-based, hence the "+ 1" wherever a stored index is used.         *)
(***************************************************************************)
EXTENDS Integers, Sequences, FiniteSets, TLC

VARIABLES col_names, col_map, rows, other, result, err, last, ret, sorted_by

vars == <<col_names, col_map, rows, other, result, err, last, ret, sorted_by>>

-----------------------------------------------------------------------------
(* Bounds of the model.                                                    *)

MaxCols == 2
MaxRows == 1
MaxFileRows == 1

-----------------------------------------------------------------------------
(* Generic helpers on sequences.                                           *)

Range(s) == {s[i] : i \in 1..Len(s)}

RECURSIVE Flatten(_)
Flatten(ss) == IF ss = <<>> THEN <<>> ELSE Head(ss) \o Flatten(Tail(ss))

RECURSIVE SeqsUpTo(_, _)
SeqsUpTo(S, n) ==
  IF n = 0 THEN {<<>>}
  ELSE LET P == SeqsUpTo(S, n - 1)
       IN  P \cup {Append(p, x) : p \in {q \in P : Len(q) = n - 1}, x \in S}

\* The sequences that list every element of the finite set S exactly once.
RECURSIVE Orders(_)
Orders(S) ==
  IF S = {} THEN {<<>>}
  ELSE UNION {{<<x>> \o o : o \in Orders(S \ {x})} : x \in S}

\* The subsequence of s at the positions satisfying Keep (in order).
RECURSIVE SelectIdx(_, _, _)
SelectIdx(s, Keep(_), i) ==
  IF i > Len(s) THEN <<>>
  ELSE (IF Keep(i) THEN <<s[i]>> ELSE <<>>) \o SelectIdx(s, Keep, i + 1)

\* The number of positions of s holding x.
Count(s, x) == Cardinality({i \in 1..Len(s) : s[i] = x})

\* s and t hold the same elements with the same multiplicities.
SameBag(s, t) ==
  /\ Len(s) = Len(t)
  /\ \A x \in Range(s) \cup Range(t) : Count(s, x) = Count(t, x)

-----------------------------------------------------------------------------
(* CellValue = std::variant<std::string, int, double, bool, uint64_t>.     *)
(* A cell is a record [t, v]: t is the alternative held, v its value.      *)
(*   "string": v is the text;  "int": v is the integer;  "bool": v is a    *)
(*   BOOLEAN;  "double": v counts tenths (905 is 90.5, 850 is 85.0), the   *)
(*   doubles the model ranges over;  "uint64_t": v is the canonical        *)
(*   decimal digit sequence of the value, which may exceed 32 bits.        *)
(* A double that is a whole number of nine to fifteen digits (too large to *)
(* count in tenths, small enough to be exact) is [t, big, neg]: big is the *)
(* digit sequence of its magnitude, neg its sign.  The double that is not   *)
(* a number is [t, nan].                                                   *)

Str(s)  == [t |-> "string", v |-> s]
Int_(i) == [t |-> "int", v |-> i]
Dbl(d)  == [t |-> "double", v |-> d]
Bool_(b) == [t |-> "bool", v |-> b]
U64(ds) == [t |-> "uint64_t", v |-> ds]
BigDbl(neg, ds) == [t |-> "double", big |-> ds, neg |-> neg]

IsBig(value) == value.t = "double" /\ "big" \in DOMAIN value

NaNDbl == [t |-> "double", nan |-> TRUE]

IsNaN(value) == value.t = "double" /\ "nan" \in DOMAIN value

EmptyStr == Str(<<>>)

Digits == <<"0", "1", "2", "3", "4", "5", "6", "7", "8", "9">>

IsDigit(c) == \E i \in 1..10 : Digits[i] = c

DigitVal(c) == (CHOOSE i \in 1..10 : Digits[i] = c) - 1

\* std::to_string of a non-negative integer.
RECURSIVE NatToString(_)
NatToString(n) ==
  IF n < 10 THEN <<Digits[n + 1]>>
  ELSE NatToString(n \div 10) \o <<Digits[(n % 10) + 1]>>

INT_MAX_DIGITS == <<"2", "1", "4", "7", "4", "8", "3", "6", "4", "7">>
INT_MIN_DIGITS == <<"2", "1", "4", "7", "4", "8", "3", "6", "4", "8">>

\* std::to_string(int); the magnitude of INT_MIN is no int.
to_string(i) ==
  IF i >= 0 THEN NatToString(i)
  ELSE <<"-">> \o (IF i + 2147483647 < 0 THEN INT_MIN_DIGITS
                                         ELSE NatToString(0 - i))

NA_  == <<"N", "A">>
NaN_ == <<"N", "a", "N">>
Nan_ == <<"n", "a", "n">>
HashNA_ == <<"#", "N", "/", "A">>
True_  == <<"t", "r", "u", "e">>
False_ == <<"f", "a", "l", "s", "e">>

\* str.empty() || str == "NA" || str == "NaN" || str == "#N/A"
IsMissingText(s) == s = <<>> \/ s = NA_ \/ s = NaN_ \/ s = HashNA_

\* A double (in tenths) printed with std::fixed << std::setprecision(10).
FixedTen(d) ==
  LET a == IF d < 0 THEN 0 - d ELSE d
  IN  (IF d < 0 THEN <<"-">> ELSE <<>>)
        \o NatToString(a \div 10) \o <<".", Digits[(a % 10) + 1]>>
        \o <<"0", "0", "0", "0", "0", "0", "0", "0", "0">>

cell_to_string(value) ==
  CASE value.t = "string"   -> value.v
    [] value.t = "int"      -> to_string(value.v)
    [] value.t = "double"   ->
         IF value.v % 10 = 0
         THEN to_string(IF value.v < 0 THEN 0 - ((0 - value.v) \div 10)
                                       ELSE value.v \div 10)
         ELSE FixedTen(value.v)
    [] value.t = "bool"     -> IF value.v THEN True_ ELSE False_
    [] value.t = "uint64_t" -> value.v

-----------------------------------------------------------------------------
(* Decimal digit sequences as unbounded naturals (uint64_t does not fit    *)
(* the model checker's integers).                                          *)

RECURSIVE StripZeros(_)
StripZeros(ds) ==
  IF Len(ds) > 1 /\ Head(ds) = "0" THEN StripZeros(Tail(ds)) ELSE ds

\* a < b for digit sequences of equal length (lexicographic).
RECURSIVE LexLess(_, _)
LexLess(a, b) ==
  IF a = <<>> THEN FALSE
  ELSE IF Head(a) # Head(b) THEN DigitVal(Head(a)) < DigitVal(Head(b))
  ELSE LexLess(Tail(a), Tail(b))

\* a <= b for digit sequences without leading zeros.
DigitsLE(a, b) ==
  \/ Len(a) < Len(b)
  \/ Len(a) = Len(b) /\ (a = b \/ LexLess(a, b))

RECURSIVE SubAt(_, _, _, _)
SubAt(a, b, i, borrow) ==
  IF i = 0 THEN <<>>
  ELSE LET d == DigitVal(a[i]) - DigitVal(b[i]) - borrow
       IN  SubAt(a, b, i - 1, IF d < 0 THEN 1 ELSE 0)
             \o <<Digits[(IF d < 0 THEN d + 10 ELSE d) + 1]>>

\* a - b for digit sequences without leading zeros, a >= b.
SubDigits(a, b) ==
  LET pad == [i \in 1..(Len(a) - Len(b)) |-> "0"]
  IN  StripZeros(SubAt(a, pad \o b, Len(a), 0))

ULLONG_MAX_DIGITS ==
  <<"1", "8", "4", "4", "6", "7", "4", "4", "0", "7",
    "3", "7", "0", "9", "5", "5", "1", "6", "1", "5">>
TWO_POW_64_DIGITS ==
  <<"1", "8", "4", "4", "6", "7", "4", "4", "0", "7",
    "3", "7", "0", "9", "5", "5", "1", "6", "1", "6">>

\* The value of a digit sequence, accumulated with the given sign so that
\* INT_MIN is reached without passing through 2^31.
RECURSIVE DigitsToInt(_, _, _)
DigitsToInt(ds, sign, acc) ==
  IF ds = <<>> THEN acc
  ELSE DigitsToInt(Tail(ds), sign, acc * 10 + sign * DigitVal(Head(ds)))

\* static_cast<int>(d) is defined for a large whole double whose magnitude
\* is at most INT_MAX (INT_MIN for a negative one).
FitsInt(value) ==
  ~IsBig(value)
  \/ DigitsLE(value.big, IF value.neg THEN INT_MIN_DIGITS ELSE INT_MAX_DIGITS)

\* cell_to_string of any cell: static_cast<int>(d) of a whole double
\* outside the range of int is undefined, and ub is the int it yields.
cell_to_string_ub(value, ub) ==
  IF IsNaN(value) THEN Nan_
  ELSE IF ~IsBig(value) THEN cell_to_string(value)
  ELSE IF FitsInt(value)
  THEN (IF value.neg THEN <<"-">> ELSE <<>>) \o value.big
  ELSE to_string(ub)

-----------------------------------------------------------------------------
(* The numeric parsers of the standard library, as parse_cell uses them:   *)
(* each skips leading white space, takes an optional sign and the longest  *)
(* numeric prefix, and parse_cell accepts it only when the prefix is the   *)
(* whole text (pos == str.size()).  A result is [ok, v].                   *)

IsSpace(c) == c \in {" ", "\t"}

RECURSIVE SkipSpace(_)
SkipSpace(s) == IF s # <<>> /\ IsSpace(Head(s)) THEN SkipSpace(Tail(s)) ELSE s

HasSign(s) == s # <<>> /\ Head(s) \in {"+", "-"}

IsNegative(s) == s # <<>> /\ Head(s) = "-"

Unsigned(s) == IF HasSign(s) THEN Tail(s) ELSE s

AllDigits(s) == s # <<>> /\ \A i \in 1..Len(s) : IsDigit(s[i])

Failed == [ok |-> FALSE, v |-> 0]

\* std::stoi(str, &pos) with the check pos == str.size().
stoi_full(str) ==
  LET body == SkipSpace(str)
      ds   == Unsigned(body)
      mag  == StripZeros(ds)
  IN  IF ~AllDigits(ds) THEN Failed
      ELSE IF IsNegative(body)
        THEN IF DigitsLE(mag, INT_MIN_DIGITS)
             THEN [ok |-> TRUE, v |-> DigitsToInt(mag, -1, 0)] ELSE Failed
        ELSE IF DigitsLE(mag, INT_MAX_DIGITS)
             THEN [ok |-> TRUE, v |-> DigitsToInt(mag, 1, 0)] ELSE Failed

\* std::stoull(str, &pos) with the check pos == str.size(): strtoull
\* negates a text with a minus sign in unsigned arithmetic.
stoull_full(str) ==
  LET body == SkipSpace(str)
      ds   == Unsigned(body)
      mag  == StripZeros(ds)
  IN  IF ~AllDigits(ds) \/ ~DigitsLE(mag, ULLONG_MAX_DIGITS) THEN Failed
      ELSE IF IsNegative(body) /\ mag # <<"0">>
        THEN [ok |-> TRUE, v |-> SubDigits(TWO_POW_64_DIGITS, mag)]
        ELSE [ok |-> TRUE, v |-> mag]

\* The position of the first "." of s, or 0.
DotAt(s) ==
  IF \E i \in 1..Len(s) : s[i] = "."
  THEN CHOOSE i \in 1..Len(s) : s[i] = "." /\ \A j \in 1..(i - 1) : s[j] # "."
  ELSE 0

\* std::stod(str, &pos) with the check pos == str.size(), for the decimal
\* texts whose value the model holds: digits, an optional "." and
\* fraction digits of which only the first may be non-zero, and none when
\* there are more than eight integer digits (fifteen at most).
\* and "nan".  (Exponents, hexadecimal floats, "inf" and the other
\* spellings of "nan" are outside the texts the model reads.)
stod_full(str) ==
  LET body == SkipSpace(str)
      ds   == Unsigned(body)
      dot  == DotAt(ds)
      ip   == IF dot = 0 THEN ds ELSE SubSeq(ds, 1, dot - 1)
      fp   == IF dot = 0 THEN <<>> ELSE SubSeq(ds, dot + 1, Len(ds))
      sign == IF IsNegative(body) THEN -1 ELSE 1
      okIp == ip = <<>> \/ (AllDigits(ip) /\ Len(StripZeros(ip)) <= 15)
      okFp == fp = <<>> \/ (AllDigits(fp) /\ \A i \in 2..Len(fp) : fp[i] = "0")
      tenth == IF fp = <<>> THEN 0 ELSE DigitVal(fp[1])
      large == ip # <<>> /\ Len(StripZeros(ip)) > 8
  IN  IF ds = Nan_ THEN [ok |-> TRUE, v |-> NaNDbl]
      ELSE IF (ip = <<>> /\ fp = <<>>) \/ ~okIp \/ ~okFp THEN Failed
      ELSE IF large
      THEN (IF tenth # 0 THEN Failed
            ELSE [ok |-> TRUE, v |-> BigDbl(IsNegative(body), StripZeros(ip))])
      ELSE [ok |-> TRUE,
            v  |-> Dbl(DigitsToInt(ip, sign, 0) * 10 + sign * tenth)]

parse_cell(str) ==
  IF IsMissingText(str) THEN EmptyStr
  ELSE IF str = True_ THEN Bool_(TRUE)
  ELSE IF str = False_ THEN Bool_(FALSE)
  ELSE IF stoi_full(str).ok THEN Int_(stoi_full(str).v)
  ELSE IF stoull_full(str).ok THEN U64(stoull_full(str).v)
  ELSE IF stod_full(str).ok THEN stod_full(str).v
  ELSE Str(str)

-----------------------------------------------------------------------------
(* convert_cell<T>: the coercion of a cell to the type T, named as the     *)
(* variant tags are.  std::stoi, std::stoull and std::stod take the        *)
(* longest numeric prefix of a text; convert_cell checks that the prefix   *)
(* is the whole text for int only.                                         *)

Types == {"string", "int", "double", "bool", "uint64_t"}

RECURSIVE DigitPrefix(_)
DigitPrefix(s) ==
  IF s # <<>> /\ IsDigit(Head(s)) THEN <<Head(s)>> \o DigitPrefix(Tail(s))
  ELSE <<>>

SignOf(body) == IF HasSign(body) THEN <<Head(body)>> ELSE <<>>

\* std::stoi(str, &pos): err is the exception thrown, whole says pos is
\* str.size().
stoi(str) ==
  LET body == SkipSpace(str)
      ds   == Unsigned(body)
      dp   == DigitPrefix(ds)
      r    == stoi_full(SignOf(body) \o dp)
  IN  IF dp = <<>> THEN [err |-> "invalid_argument", v |-> 0, whole |-> FALSE]
      ELSE IF ~r.ok THEN [err |-> "out_of_range", v |-> 0, whole |-> FALSE]
      ELSE [err |-> "none", v |-> r.v, whole |-> dp = ds]

\* std::stoull(str).
stoull(str) ==
  LET body == SkipSpace(str)
      dp   == DigitPrefix(Unsigned(body))
      r    == stoull_full(SignOf(body) \o dp)
  IN  IF dp = <<>> THEN [err |-> "invalid_argument", v |-> <<>>]
      ELSE IF ~r.ok THEN [err |-> "out_of_range", v |-> <<>>]
      ELSE [err |-> "none", v |-> r.v]

\* std::stod(str), for the texts whose decimal prefix has a value the
\* model holds (see stod_full).
stod(str) ==
  LET body == SkipSpace(str)
      ds   == Unsigned(body)
      ip   == DigitPrefix(ds)
      rest == SubSeq(ds, Len(ip) + 1, Len(ds))
      dot  == rest # <<>> /\ Head(rest) = "."
      fp   == IF dot THEN DigitPrefix(Tail(rest)) ELSE <<>>
      text == SignOf(body) \o ip \o (IF dot THEN <<".">> \o fp ELSE <<>>)
  IN  IF Len(ds) >= 3 /\ SubSeq(ds, 1, 3) = Nan_
      THEN [err |-> "none", v |-> NaNDbl]
      ELSE IF ip = <<>> /\ fp = <<>> THEN [err |-> "invalid_argument", v |-> 0]
      ELSE [err |-> "none", v |-> stod_full(text).v]

\* static_cast<double> of a natural number given by its digits; exact
\* below 2^53, which the numbers the model converts are.
DblOfNat(neg, ds) ==
  IF Len(ds) <= 8 THEN Dbl(DigitsToInt(ds, IF neg THEN -1 ELSE 1, 0) * 10)
  ELSE BigDbl(neg, ds)

\* The digits of the magnitude of an int.
Magnitude(i) ==
  IF i >= 0 THEN NatToString(i)
  ELSE IF i + 2147483647 < 0 THEN INT_MIN_DIGITS
  ELSE NatToString(0 - i)

\* static_cast<uint64_t>(int): a negative int wraps around 2^64.
U64OfInt(i) ==
  U64(IF i < 0 THEN SubDigits(TWO_POW_64_DIGITS, Magnitude(i)) ELSE NatToString(i))

\* static_cast<uint64_t>(double) truncates toward zero; it is undefined
\* for a double that is -1 or below or no number, and ub is the value it
\* then yields.
U64OfDbl(value, ub) ==
  IF IsNaN(value) THEN U64(ub)
  ELSE IF IsBig(value) THEN (IF value.neg THEN U64(ub) ELSE U64(value.big))
  ELSE IF value.v >= 0 THEN U64(NatToString(value.v \div 10))
  ELSE IF value.v > -10 THEN U64(<<"0">>)
  ELSE U64(ub)

\* A coercion that returned v, and one that threw err with a message of
\* the kind what.
Converted(v) == [err |-> "none", what |-> "", v |-> v]

NotConverted(e, what) == [err |-> e, what |-> what, v |-> EmptyStr]

\* The int of a text, from what std::stoi(str, &pos) did.
int_of_text(r) ==
  IF r.err # "none" THEN NotConverted(r.err, "stoi")
  ELSE IF ~r.whole THEN NotConverted("invalid_argument", "stoi")
  ELSE Converted(Int_(r.v))

\* The double of a text, from what std::stod(str) did.
double_of_text(r) ==
  IF r.err # "none" THEN NotConverted(r.err, "stod") ELSE Converted(r.v)

\* The uint64_t of a text, from what std::stoull(str) did.
uint64_of_text(r) ==
  IF r.err # "none" THEN NotConverted(r.err, "stoull") ELSE Converted(U64(r.v))

bool_of_text(str) ==
  IF str = True_ \/ str = <<"1">> THEN Converted(Bool_(TRUE))
  ELSE IF str = False_ \/ str = <<"0">> THEN Converted(Bool_(FALSE))
  ELSE NotConverted("runtime_error", "invalid boolean")

\* The branch of convert_cell for a cell holding a text.
convert_text(T, str) ==
  IF IsMissingText(str) THEN NotConverted("runtime_error", "empty or NA")
  ELSE CASE T = "int"      -> int_of_text(stoi(str))
         [] T = "double"   -> double_of_text(stod(str))
         [] T = "bool"     -> bool_of_text(str)
         [] T = "uint64_t" -> uint64_of_text(stoull(str))

\* convert_cell without its final throw: a cell of another alternative is
\* returned as it is.
convert_cell_no_mismatch(T, value, ub) ==
  IF value.t = T THEN Converted(value)
  ELSE IF value.t = "string" THEN convert_text(T, value.v)
  ELSE CASE T = "double" /\ value.t = "int" ->
              Converted(DblOfNat(value.v < 0, Magnitude(value.v)))
         [] T = "double" /\ value.t = "uint64_t" ->
              Converted(DblOfNat(FALSE, value.v))
         [] T = "bool" /\ value.t = "int" -> Converted(Bool_(value.v # 0))
         [] T = "bool" /\ value.t = "uint64_t" -> Converted(Bool_(value.v # <<"0">>))
         [] T = "uint64_t" /\ value.t = "int" -> Converted(U64OfInt(value.v))
         [] T = "uint64_t" /\ value.t = "double" -> Converted(U64OfDbl(value, ub))
         [] OTHER -> Converted(value)

convert_cell(T, value, ub) ==
  IF value.t = T THEN Converted(value)
  ELSE IF value.t = "string" THEN convert_text(T, value.v)
  ELSE CASE T = "double" /\ value.t = "int" ->
              Converted(DblOfNat(value.v < 0, Magnitude(value.v)))
         [] T = "double" /\ value.t = "uint64_t" ->
              Converted(DblOfNat(FALSE, value.v))
         [] T = "bool" /\ value.t = "int" -> Converted(Bool_(value.v # 0))
         [] T = "bool" /\ value.t = "uint64_t" -> Converted(Bool_(value.v # <<"0">>))
         [] T = "uint64_t" /\ value.t = "int" -> Converted(U64OfInt(value.v))
         [] T = "uint64_t" /\ value.t = "double" -> Converted(U64OfDbl(value, ub))
         [] OTHER -> NotConverted("runtime_error", "type mismatch")

-----------------------------------------------------------------------------
(* Line splitting of read_file.                                            *)

\* std::views::split(line, ','): an empty line has no field; otherwise the
\* fields between the commas, empty ones included.
RECURSIVE SplitFrom(_, _)
SplitFrom(line, cur) ==
  IF line = <<>> THEN <<cur>>
  ELSE IF Head(line) = "," THEN <<cur>> \o SplitFrom(Tail(line), <<>>)
  ELSE SplitFrom(Tail(line), Append(cur, Head(line)))

split(line) == IF line = <<>> THEN <<>> ELSE SplitFrom(line, <<>>)

\* The lambda of read_file: one leading and one trailing double quote are
\* stripped when the field starts and ends with one.  (A field that is a
\* single quote character makes substr(1, npos) return the empty text.)
strip_quotes(s) ==
  IF s # <<>> /\ Head(s) = "\"" /\ s[Len(s)] = "\""
  THEN (IF Len(s) = 1 THEN <<>> ELSE SubSeq(s, 2, Len(s) - 1))
  ELSE s

-----------------------------------------------------------------------------
(* Table storage: col_names (std::vector<std::string>), col_map            *)
(* (std::map<std::string, int, std::less<>>) and rows.  A table value is   *)
(* the record of the three; an operation that may throw yields an outcome  *)
(* [err, t]: the exception ("none" when it returns) and the table it       *)
(* leaves behind.                                                          *)

Tbl(cn, cm, rs) == [col_names |-> cn, col_map |-> cm, rows |-> rs]

EmptyMap == [n \in {} |-> 0]

EmptyTable == Tbl(<<>>, EmptyMap, <<>>)

Ok(T) == [err |-> "none", t |-> T]

Throw(e, T) == [err |-> e, t |-> T]

\* col_map[k] = v
MapPut(m, k, v) == [n \in (DOMAIN m) \cup {k} |-> IF n = k THEN v ELSE m[n]]

\* col_map.erase(k)
MapErase(m, k) == [n \in (DOMAIN m) \ {k} |-> m[n]]

\* col_map.contains(k)
Contains(m, k) == k \in DOMAIN m

\* s without its element at the zero-based index k (vector::erase).
EraseAt(s, k) == [i \in 1..(Len(s) - 1) |-> IF i <= k THEN s[i] ELSE s[i + 1]]

\* for (i = 0; i < col_names.size(); ++i) col_map[col_names[i]] = i;
RECURSIVE IndexNames(_, _, _)
IndexNames(m, names, i) ==
  IF i >= Len(names) THEN m
  ELSE IndexNames(MapPut(m, names[i + 1], i), names, i + 1)

\* while (row.size() < n) row.emplace_back(std::string(""));
PadTo(row, n) ==
  IF Len(row) >= n THEN row ELSE row \o [i \in 1..(n - Len(row)) |-> EmptyStr]

\* values.resize(n) after padding: the first n values.
Resize(row, n) == SubSeq(PadTo(row, n), 1, n)

\* One field of a header line / of a data line, as read_file reads it.
header_fields(line) == [i \in DOMAIN split(line) |-> strip_quotes(split(line)[i])]

row_fields(line) ==
  [i \in DOMAIN split(line) |-> parse_cell(strip_quotes(split(line)[i]))]

\* read_file without the comparison of the header with the column names.
read_file_unchecked(T, file) ==
  IF ~file.exists \/ file.lines = <<>> THEN Throw("runtime_error", T)
  ELSE
    LET new_col_names == header_fields(Head(file.lines))
        data == Tail(file.lines)
        cn == IF T.col_names = <<>> THEN new_col_names ELSE T.col_names
        cm == IF T.col_names = <<>> THEN IndexNames(T.col_map, new_col_names, 0)
              ELSE T.col_map
        new_rows == [i \in DOMAIN data |-> PadTo(row_fields(data[i]), Len(cn))]
    IN  Ok(Tbl(cn, cm, T.rows \o new_rows))

\* A file is [exists, lines]: lines[1] is the header line.
read_file(T, file) ==
  IF ~file.exists \/ file.lines = <<>> THEN Throw("runtime_error", T)
  ELSE
    LET new_col_names == header_fields(Head(file.lines))
        data == Tail(file.lines)
        cn == IF T.col_names = <<>> THEN new_col_names ELSE T.col_names
        cm == IF T.col_names = <<>> THEN IndexNames(T.col_map, new_col_names, 0)
              ELSE T.col_map
        new_rows == [i \in DOMAIN data |-> PadTo(row_fields(data[i]), Len(cn))]
    IN  IF T.col_names # <<>> /\ new_col_names # T.col_names
        THEN Throw("runtime_error", T)
        ELSE Ok(Tbl(cn, cm, T.rows \o new_rows))

add_column(T, col_name, default_value) ==
  IF Contains(T.col_map, col_name) THEN Throw("invalid_argument", T)
  ELSE Ok(Tbl(Append(T.col_names, col_name),
              MapPut(T.col_map, col_name, Len(T.col_names)),
              [i \in DOMAIN T.rows |-> Append(T.rows[i], default_value)]))

\* delete_column without the loop that decrements the later indices.
delete_column_no_shift(T, col_name) ==
  IF ~Contains(T.col_map, col_name) THEN Throw("invalid_argument", T)
  ELSE
    LET col_index == T.col_map[col_name]
    IN  Ok(Tbl(EraseAt(T.col_names, col_index),
               MapErase(T.col_map, col_name),
               [i \in DOMAIN T.rows |-> EraseAt(T.rows[i], col_index)]))

delete_column(T, col_name) ==
  IF ~Contains(T.col_map, col_name) THEN Throw("invalid_argument", T)
  ELSE
    LET col_index == T.col_map[col_name]
        erased == MapErase(T.col_map, col_name)
    IN  Ok(Tbl(EraseAt(T.col_names, col_index),
               [n \in DOMAIN erased |->
                  IF erased[n] > col_index THEN erased[n] - 1 ELSE erased[n]],
               [i \in DOMAIN T.rows |-> EraseAt(T.rows[i], col_index)]))

\* delete_column for each name in turn; the first throw ends the loop and
\* leaves the earlier deletions in place.
RECURSIVE delete_columns(_, _)
delete_columns(T, names) ==
  IF names = <<>> THEN Ok(T)
  ELSE LET o == delete_column(T, Head(names))
       IN  IF o.err # "none" THEN o ELSE delete_columns(o.t, Tail(names))

\* rename_map is the sequence of (old, new) pairs in the iteration order of
\* the std::map argument (ascending old name).
RECURSIVE rename_columns(_, _)
rename_columns(T, rename_map) ==
  IF rename_map = <<>> THEN Ok(T)
  ELSE
    LET old_name == Head(rename_map)[1]
        new_name == Head(rename_map)[2]
    IN  IF ~Contains(T.col_map, old_name) THEN Throw("invalid_argument", T)
        ELSE IF Contains(T.col_map, new_name) THEN Throw("invalid_argument", T)
        ELSE
          LET col_index == T.col_map[old_name]
          IN  rename_columns(
                Tbl([T.col_names EXCEPT ![col_index + 1] = new_name],
                    MapPut(MapErase(T.col_map, old_name), new_name, col_index),
                    T.rows),
                Tail(rename_map))

append_row(T, values) ==
  Ok(Tbl(T.col_names, T.col_map,
         Append(T.rows, Resize(values, Len(T.col_names)))))

delete_row(T, index) ==
  IF index < Len(T.rows)
  THEN Ok(Tbl(T.col_names, T.col_map, EraseAt(T.rows, index)))
  ELSE Throw("out_of_range", T)

append_table(T, O) ==
  IF O.col_names = <<>> THEN Ok(T)
  ELSE IF T.col_names = <<>> THEN Ok(Tbl(O.col_names, O.col_map, O.rows))
  ELSE IF T.col_names # O.col_names THEN Throw("invalid_argument", T)
  ELSE Ok(Tbl(T.col_names, T.col_map, T.rows \o O.rows))

-----------------------------------------------------------------------------
(* Row selection and missing values.                                       *)

\* filter_rows: the predicate is given by the set of zero-based row indices
\* on which it returns true; the result lists them in increasing order.
RECURSIVE filter_rows_from(_, _, _)
filter_rows_from(T, pred, i) ==
  IF i >= Len(T.rows) THEN <<>>
  ELSE (IF i \in pred THEN <<i>> ELSE <<>>) \o filter_rows_from(T, pred, i + 1)

filter_rows(T, pred) == filter_rows_from(T, pred, 0)

\* sub_table: static_cast<size_t>(idx) makes a negative index out of range.
sub_table(T, row_indices) ==
  IF \E k \in DOMAIN row_indices :
       row_indices[k] < 0 \/ row_indices[k] >= Len(T.rows)
  THEN Throw("out_of_range", EmptyTable)
  ELSE Ok(Tbl(T.col_names, T.col_map,
              [k \in DOMAIN row_indices |-> T.rows[row_indices[k] + 1]]))

\* filter_table that takes every row.
filter_table_every_row(T, pred) ==
  sub_table(T, filter_rows(T, 0..(Len(T.rows) - 1)))

filter_table(T, pred) == sub_table(T, filter_rows(T, pred))

\* std::holds_alternative<std::string>(cell) && contains(missing_values, value)
IsMissingCell(cell) == cell.t = "string" /\ IsMissingText(cell.v)

\* columns.empty() ? col_names : columns
cols_to_check(T, columns) == IF columns = <<>> THEN T.col_names ELSE columns

AllKnown(T, columns) ==
  \A k \in DOMAIN columns : Contains(T.col_map, columns[k])

\* The inner loop of dropna: keep_row.
\* keep_row that looks at the first of the columns only.
keep_row_first_only(T, row, columns) ==
  columns = <<>> \/ ~IsMissingCell(row[T.col_map[columns[1]] + 1])

keep_row(T, row, columns) ==
  \A k \in DOMAIN columns : ~IsMissingCell(row[T.col_map[columns[k]] + 1])

RECURSIVE dropna_rows(_, _, _)
dropna_rows(T, rs, columns) ==
  IF rs = <<>> THEN <<>>
  ELSE (IF keep_row(T, Head(rs), columns) THEN <<Head(rs)>> ELSE <<>>)
         \o dropna_rows(T, Tail(rs), columns)

dropna(T, columns) ==
  LET cols == cols_to_check(T, columns)
  IN  IF ~AllKnown(T, cols) THEN Throw("invalid_argument", T)
      ELSE Ok(Tbl(T.col_names, T.col_map, dropna_rows(T, T.rows, cols)))

\* fillna: column by column; an unknown name throws after the columns
\* before it have been filled.
RECURSIVE fillna(_, _, _)
fillna(T, columns, fill_value) ==
  IF columns = <<>> THEN Ok(T)
  ELSE IF ~Contains(T.col_map, Head(columns)) THEN Throw("invalid_argument", T)
  ELSE
    LET c == T.col_map[Head(columns)] + 1
        filled == [i \in DOMAIN T.rows |->
                     IF IsMissingCell(T.rows[i][c])
                     THEN [T.rows[i] EXCEPT ![c] = fill_value]
                     ELSE T.rows[i]]
    IN  fillna(Tbl(T.col_names, T.col_map, filled), Tail(columns), fill_value)

\* The key of a row over the given columns: each formatted cell followed
\* by "|".
RECURSIVE row_key(_, _, _)
row_key(T, row, columns) ==
  IF columns = <<>> THEN <<>>
  ELSE cell_to_string(row[T.col_map[Head(columns)] + 1]) \o <<"|">>
         \o row_key(T, row, Tail(columns))

\* The loop of drop_duplicates: seen.insert(row_key).second keeps the row.
RECURSIVE drop_duplicates_rows(_, _, _, _)
drop_duplicates_rows(T, rs, columns, seen) ==
  IF rs = <<>> THEN <<>>
  ELSE
    LET k == row_key(T, Head(rs), columns)
    IN  IF k \in seen THEN drop_duplicates_rows(T, Tail(rs), columns, seen)
        ELSE <<Head(rs)>>
               \o drop_duplicates_rows(T, Tail(rs), columns, seen \cup {k})

\* drop_duplicates that keys every row on all its columns, whatever
\* columns names.
drop_duplicates_all_columns(T, columns) ==
  LET cols == cols_to_check(T, columns)
  IN  IF ~AllKnown(T, cols) THEN Throw("invalid_argument", T)
      ELSE Ok(Tbl(T.col_names, T.col_map,
                  drop_duplicates_rows(T, T.rows, T.col_names, {})))

drop_duplicates(T, columns) ==
  LET cols == cols_to_check(T, columns)
  IN  IF ~AllKnown(T, cols) THEN Throw("invalid_argument", T)
      ELSE Ok(Tbl(T.col_names, T.col_map,
                  drop_duplicates_rows(T, T.rows, cols, {})))

RECURSIVE every_nth(_, _, _)
every_nth(rs, n, i) ==
  IF i >= Len(rs) THEN <<>> ELSE <<rs[i + 1]>> \o every_nth(rs, n, i + n)

keep_every_nth_row(T, n) ==
  IF n < 0 THEN Throw("invalid_argument", T)
  ELSE IF n = 0 THEN Ok(Tbl(T.col_names, T.col_map, <<>>))
  ELSE IF n = 1 THEN Ok(T)
  ELSE Ok(Tbl(T.col_names, T.col_map, every_nth(T.rows, n, 0)))

-----------------------------------------------------------------------------
(* merge and join.                                                         *)

Hows == {"inner", "left", "right", "outer"}

Other_ == <<"_", "o", "t", "h", "e", "r">>

\* std::find(on_columns.begin(), on_columns.end(), col) != on_columns.end()
is_key(on_columns, col) == \E k \in DOMAIN on_columns : on_columns[k] = col

\* The while loop that picks a result name for a column of other: taken
\* is the set of names already used; col, col_other, col_other1, ...
RECURSIVE unique_name(_, _, _, _)
\* unique_name with an "if" for the "while": one _other and no number.
unique_name_once(taken, col, new_name, suffix) ==
  IF new_name \in taken THEN col \o Other_ ELSE new_name

unique_name(taken, col, new_name, suffix) ==
  IF new_name \in taken
  THEN unique_name(taken, col,
                   col \o Other_ \o (IF suffix # 0 THEN to_string(suffix) ELSE <<>>),
                   suffix + 1)
  ELSE new_name

\* The schema loop of merge over other.col_names, from index i on.  The
\* state is [names, map, o2n, nk] for new_col_names, new_col_map,
\* other_to_new_names and non_key_cols.
RECURSIVE merge_schema(_, _, _, _)
merge_schema(S, O, on_columns, i) ==
  IF i > Len(O.col_names) THEN S
  ELSE
    LET col == O.col_names[i]
        taken == DOMAIN S.map
        new_name == unique_name(taken, col, col, 0)
    IN  IF ~is_key(on_columns, col)
        THEN merge_schema([names |-> Append(S.names, new_name),
                           map   |-> MapPut(S.map, new_name, Len(S.names)),
                           o2n   |-> Append(S.o2n, new_name),
                           nk    |-> S.nk + 1],
                          O, on_columns, i + 1)
        ELSE merge_schema([S EXCEPT !.o2n = Append(S.o2n, col)],
                          O, on_columns, i + 1)

\* The keys of this_key_map / other_key_map, and the row indices
\* (zero-based, ascending) stored under a key.
key_set(T, on_columns) ==
  {row_key(T, T.rows[i], on_columns) : i \in DOMAIN T.rows}

RECURSIVE key_indices_from(_, _, _, _)
key_indices_from(T, on_columns, key, i) ==
  IF i >= Len(T.rows) THEN <<>>
  ELSE (IF row_key(T, T.rows[i + 1], on_columns) = key THEN <<i>> ELSE <<>>)
         \o key_indices_from(T, on_columns, key, i + 1)

key_indices(T, on_columns, key) == key_indices_from(T, on_columns, key, 0)

\* new_row[idx] = value for each (idx, value) of writes, in order.
RECURSIVE Assign(_, _)
Assign(row, writes) ==
  IF writes = <<>> THEN row
  ELSE Assign([row EXCEPT ![Head(writes)[1] + 1] = Head(writes)[2]], Tail(writes))

\* std::vector<CellValue> new_row(n): n value-initialised cells (empty text).
BlankRow(n) == [i \in 1..n |-> EmptyStr]

\* for (col : col_names) new_row[new_col_map.at(col)] = rows[this_idx][col_map.at(col)]
left_writes(L, S, this_idx) ==
  [k \in DOMAIN L.col_names |->
     <<S.map[L.col_names[k]], L.rows[this_idx + 1][L.col_map[L.col_names[k]] + 1]>>]

\* for (i) if other.col_names[i] is no key:
\*   new_row[new_col_map.at(other_to_new_names[i])] = other.rows[other_idx][i]
other_writes(O, S, on_columns, other_idx) ==
  LET nonkey(i) == ~is_key(on_columns, O.col_names[i])
      W == [i \in DOMAIN O.col_names |->
              <<S.map[S.o2n[i]], O.rows[other_idx + 1][i]>>]
  IN  SelectIdx(W, nonkey, 1)

\* The row of a matched pair.
matched_row(L, O, S, on_columns, this_idx, other_idx) ==
  Assign(BlankRow(Len(S.names)),
         left_writes(L, S, this_idx) \o other_writes(O, S, on_columns, other_idx))

\* for (i = 0; i < non_key_cols; ++i)
\*   new_row[new_col_map.at(other_to_new_names[on_columns.size() + i])] = ""
blank_writes(S, on_columns) ==
  [i \in 1..S.nk |-> <<S.map[S.o2n[Len(on_columns) + i]], EmptyStr>>]

\* The row of a left row without a match.
unmatched_left_row(L, S, on_columns, this_idx) ==
  Assign(BlankRow(Len(S.names)),
         left_writes(L, S, this_idx) \o blank_writes(S, on_columns))

\* The row the second loop builds for a right row.
right_row(L, O, S, on_columns, other_idx) ==
  LET keys == [k \in DOMAIN on_columns |->
                 <<S.map[on_columns[k]],
                   O.rows[other_idx + 1][O.col_map[on_columns[k]] + 1]>>]
      nonkey(k) == ~is_key(on_columns, L.col_names[k])
      blanks == SelectIdx([k \in DOMAIN L.col_names |->
                             <<S.map[L.col_names[k]], EmptyStr>>], nonkey, 1)
  IN  Assign(BlankRow(Len(S.names)),
             keys \o blanks \o other_writes(O, S, on_columns, other_idx))

\* left_bucket without the "continue" of an unmatched key under inner.
left_bucket_no_skip(L, O, S, on_columns, how, key) ==
  LET has_match == key \in key_set(O, on_columns)
      this_indices == key_indices(L, on_columns, key)
      other_indices == IF has_match THEN key_indices(O, on_columns, key) ELSE <<>>
  IN  Flatten([a \in DOMAIN this_indices |->
        IF has_match
        THEN [b \in DOMAIN other_indices |->
                matched_row(L, O, S, on_columns,
                            this_indices[a], other_indices[b])]
        ELSE <<unmatched_left_row(L, S, on_columns, this_indices[a])>>])

\* The body of the first loop for one bucket of this_key_map.
left_bucket(L, O, S, on_columns, how, key) ==
  LET has_match == key \in key_set(O, on_columns)
      this_indices == key_indices(L, on_columns, key)
      other_indices == IF has_match THEN key_indices(O, on_columns, key) ELSE <<>>
  IN  IF how = "inner" /\ ~has_match THEN <<>>
      ELSE Flatten([a \in DOMAIN this_indices |->
             IF has_match
             THEN [b \in DOMAIN other_indices |->
                     matched_row(L, O, S, on_columns,
                                 this_indices[a], other_indices[b])]
             ELSE <<unmatched_left_row(L, S, on_columns, this_indices[a])>>])

\* The body of the second loop for one bucket of other_key_map.
right_bucket(L, O, S, on_columns, how, key) ==
  LET has_match == key \in key_set(L, on_columns)
      other_indices == key_indices(O, on_columns, key)
  IN  IF has_match /\ how # "outer" THEN <<>>
      ELSE [b \in DOMAIN other_indices |->
              right_row(L, O, S, on_columns, other_indices[b])]

\* A column name of the table that col_map does not hold: col_map.at(col)
\* throws std::out_of_range for it.
Unmapped(T) == {n \in Range(T.col_names) : ~Contains(T.col_map, n)}

\* merge: this_order and other_order list the keys of this_key_map and
\* other_key_map in the order the std::unordered_map iterates them, which
\* the caller cannot know.  A row is built only through the .at() lookups
\* of its loop, so the first row built with a failing lookup throws.
merge(L, O, on_columns, how, this_order, other_order) ==
  IF how \notin Hows THEN Throw("invalid_argument", EmptyTable)
  ELSE IF \E k \in DOMAIN on_columns :
            ~Contains(L.col_map, on_columns[k]) \/ ~Contains(O.col_map, on_columns[k])
  THEN Throw("invalid_argument", EmptyTable)
  ELSE
    LET S == merge_schema([names |-> L.col_names, map |-> L.col_map,
                           o2n |-> <<>>, nk |-> 0], O, on_columns, 1)
        in_first == how \in {"inner", "left", "outer"}
        in_second == how \in {"right", "outer"}
        first_builds ==
          /\ in_first
          /\ \E key \in key_set(L, on_columns) :
               how # "inner" \/ key \in key_set(O, on_columns)
        second_builds ==
          /\ in_second
          /\ \E key \in key_set(O, on_columns) :
               how = "outer" \/ key \notin key_set(L, on_columns)
        first == IF in_first
                 THEN Flatten([k \in DOMAIN this_order |->
                        left_bucket(L, O, S, on_columns, how, this_order[k])])
                 ELSE <<>>
        second == IF in_second
                  THEN Flatten([k \in DOMAIN other_order |->
                         right_bucket(L, O, S, on_columns, how, other_order[k])])
                  ELSE <<>>
    IN  IF first_builds /\ Unmapped(L) # {}
        THEN Throw("out_of_range", EmptyTable)
        ELSE IF second_builds
                /\ \E n \in Range(L.col_names) :
                     ~is_key(on_columns, n) /\ ~Contains(S.map, n)
        THEN Throw("out_of_range", EmptyTable)
        ELSE Ok(Tbl(S.names, S.map, first \o second))

\* The name loop of join over other.col_names, from index i on.
RECURSIVE join_names(_, _, _)
join_names(names, O, i) ==
  IF i > Len(O.col_names) THEN names
  ELSE LET col == O.col_names[i]
           taken == Range(names)
       IN  join_names(Append(names, unique_name(taken, col, col, 0)), O, i + 1)

\* join_count with min for the max of outer.
join_count_outer_min(L, O, how) ==
  LET l == Len(L.rows)
      r == Len(O.rows)
  IN  CASE how = "left"  -> l
        [] how = "right" -> r
        [] OTHER         -> IF l < r THEN l ELSE r

\* N of join.
join_count(L, O, how) ==
  LET l == Len(L.rows)
      r == Len(O.rows)
  IN  CASE how = "inner" -> IF l < r THEN l ELSE r
        [] how = "left"  -> l
        [] how = "right" -> r
        [] OTHER         -> IF l < r THEN r ELSE l

join(L, O, how) ==
  IF how \notin Hows THEN Throw("invalid_argument", EmptyTable)
  ELSE IF Unmapped(L) # {} \/ Unmapped(O) # {} THEN Throw("out_of_range", EmptyTable)
  ELSE
    LET new_col_names == join_names(L.col_names, O, 1)
        \* column_sources: {0, col_map.at(col)} then {1, other.col_map.at(col)}
        this_src == [k \in DOMAIN L.col_names |-> L.col_map[L.col_names[k]]]
        other_src == [k \in DOMAIN O.col_names |-> O.col_map[O.col_names[k]]]
        N == join_count(L, O, how)
        this_row(i) == IF i < Len(L.rows) THEN L.rows[i + 1]
                       ELSE BlankRow(Len(L.col_names))
        other_row(i) == IF i < Len(O.rows) THEN O.rows[i + 1]
                        ELSE BlankRow(Len(O.col_names))
        new_rows == [i \in 1..N |->
                       [k \in DOMAIN this_src |-> this_row(i - 1)[this_src[k] + 1]]
                       \o [k \in DOMAIN other_src |-> other_row(i - 1)[other_src[k] + 1]]]
    IN  Ok(Tbl(new_col_names, IndexNames(EmptyMap, new_col_names, 0), new_rows))

-----------------------------------------------------------------------------
(* The state machine.  col_names, col_map and rows are the fields of the   *)
(* table the operations are called on; other is the table passed to the    *)
(* last call that takes one, result the table the last call returned, err  *)
(* the exception it threw ("none" when it returned) and last the call      *)
(* itself.                                                                 *)

this == Tbl(col_names, col_map, rows)

\* A call record: the operation, its column-name argument, its how, the
\* table before the call and a numeric argument.
Call(op, names, how, pre, n) ==
  [op |-> op, names |-> names, how |-> how, pre |-> pre, n |-> n]

NoCall == Call("none", <<>>, "", EmptyTable, 0)

\* ret is what the last call returned when that is no table: an iterator
\* (the zero-based index of its row, rows.size() for end), with the value
\* v the call was given to search for.
\* sorted_by is the type and column of the ascending sort_by_column that
\* was the last call to change the table, if it was one.
NoRet == [kind |-> "none", index |-> 0, v |-> EmptyStr]

NoSort == [T |-> "", name |-> <<>>]

\* A read of row[i] with i >= row.size() is undefined behaviour: the model
\* follows the program no further (err = "undefined" disables every call).
Defined == err # "undefined"

\* Some row of T is too short for one of the zero-based cell indices idxs.
ReadsPastEnd(T, idxs) ==
  \E r \in DOMAIN T.rows : \E i \in idxs : i >= Len(T.rows[r])

Undefined ==
  /\ err' = "undefined"
  /\ last' = NoCall
  /\ ret' = NoRet
  /\ UNCHANGED <<col_names, col_map, rows, other, result, sorted_by>>

\* The model lets no call grow the table beyond MaxCols columns and MaxRows
\* rows; a table that starts larger is never grown.
InBounds(T) ==
  /\ Len(T.col_names) <= (IF Len(col_names) > MaxCols THEN Len(col_names) ELSE MaxCols)
  /\ Len(T.rows) <= (IF Len(rows) > MaxRows THEN Len(rows) ELSE MaxRows)

\* The record of a call on the present table, when the specification
\* records calls (rec); the table machine Spec does not.
Rec(rec, op, names, how, n) ==
  IF rec THEN Call(op, names, how, this, n) ELSE NoCall

\* A member call that mutates the table: outcome o, call record c.
Mutate(o, c) ==
  /\ InBounds(o.t)
  /\ col_names' = o.t.col_names
  /\ col_map' = o.t.col_map
  /\ rows' = o.t.rows
  /\ err' = o.err
  /\ last' = c
  /\ other' = EmptyTable
  /\ result' = EmptyTable
  /\ ret' = NoRet
  /\ sorted_by' = IF o.t = this THEN sorted_by ELSE NoSort

\* A const member call that returns a table: outcome o, argument table O,
\* call record c.
Return(o, O, c) ==
  /\ result' = o.t
  /\ err' = o.err
  /\ other' = O
  /\ last' = c
  /\ ret' = NoRet
  /\ UNCHANGED <<col_names, col_map, rows, sorted_by>>

\* The zero-based indices col_map gives the known names among columns.
Indices(T, columns) ==
  {T.col_map[columns[k]] : k \in {j \in DOMAIN columns : Contains(T.col_map, columns[j])}}

-----------------------------------------------------------------------------
(* Ordering by a column: sort_by_column, lower_bound and find.            *)

\* The characters of the model's texts in the order of their codes, by
\* which std::string compares.
Chars ==
  << " ", "\"", "#", "+", ",", "-", ".", "/",
     "0", "1", "2", "3", "4", "5", "6", "7", "8", "9",
     "A", "N", "_", "a", "b", "c", "e", "f", "h", "l", "n", "o", "r", "s",
     "t", "u", "x", "|" >>

CharCode(c) == CHOOSE i \in DOMAIN Chars : Chars[i] = c

\* operator< of std::string.
RECURSIVE TextLess(_, _)
TextLess(a, b) ==
  IF b = <<>> THEN FALSE
  ELSE IF a = <<>> THEN TRUE
  ELSE IF Head(a) # Head(b) THEN CharCode(Head(a)) < CharCode(Head(b))
  ELSE TextLess(Tail(a), Tail(b))

DigitsLess(a, b) == a # b /\ DigitsLE(a, b)

\* operator< of double: false when either side is no number.
DblLess(x, y) ==
  IF IsNaN(x) \/ IsNaN(y) THEN FALSE
  ELSE IF IsBig(x) /\ IsBig(y)
    THEN (IF x.neg # y.neg THEN x.neg
          ELSE IF x.neg THEN DigitsLess(y.big, x.big)
          ELSE DigitsLess(x.big, y.big))
  ELSE IF IsBig(x) THEN x.neg
  ELSE IF IsBig(y) THEN ~y.neg
  ELSE x.v < y.v

\* val_a < val_b for two values of type T.
Less(T, x, y) ==
  CASE T = "string"   -> TextLess(x.v, y.v)
    [] T = "int"      -> x.v < y.v
    [] T = "double"   -> DblLess(x, y)
    [] T = "bool"     -> ~x.v /\ y.v
    [] T = "uint64_t" -> DigitsLess(x.v, y.v)

\* val_a == val_b for two values of type T.
Equal(T, x, y) == IF T = "double" /\ IsNaN(x) THEN FALSE ELSE x = y

\* What the comparator of sort_by_column does with the two conversions:
\* err is what a conversion threw, lt what the comparator returned.
compared(T, val_a, val_b, ascending) ==
  IF val_a.err # "none" THEN [err |-> val_a.err, lt |-> FALSE]
  ELSE IF val_b.err # "none" THEN [err |-> val_b.err, lt |-> FALSE]
  ELSE [err |-> "none",
        lt  |-> IF ascending THEN Less(T, val_a.v, val_b.v)
                             ELSE Less(T, val_b.v, val_a.v)]

\* The comparator of sort_by_column on the rows a and b.
sort_comp(T, a, b, col_index, ascending, ub) ==
  compared(T, convert_cell(T, a[col_index + 1], ub),
              convert_cell(T, b[col_index + 1], ub), ascending)

\* std::ranges::sort of fewer than sixteen rows is the insertion sort of
\* the standard library.  Its step for the row at position i (one-based)
\* moves a row that compares less than the first row to the front; any
\* other row moves down while it compares less than the row before, a
\* loop that ends at the first row at the latest and reads only cells
\* that were converted before, so that it cannot throw.  lts[q] says that
\* row i compares less than row q.
insert_at(lts, i) ==
  IF lts[1] THEN 1
  ELSE CHOOSE p \in 2..i : ~lts[p - 1] /\ \A q \in (p + 1)..i : lts[q - 1]

\* The rows with row i moved to the position at.
moved(rs, i, at) ==
  SubSeq(rs, 1, at - 1) \o <<rs[i]>> \o SubSeq(rs, at, i - 1)
    \o SubSeq(rs, i + 1, Len(rs))

linear_insert(T, rs, i, col_index, ascending, ub) ==
  moved(rs, i,
        insert_at([q \in 1..(i - 1) |->
                     sort_comp(T, rs[i], rs[q], col_index, ascending, ub).lt], i))

\* The loop over the rows from position i, and its step once row i was
\* compared with the first row (k).  A conversion that throws leaves the
\* rows as they are by then.
RECURSIVE insertion_sort(_, _, _, _, _, _)
RECURSIVE insertion_step(_, _, _, _, _, _, _)
insertion_sort(T, rs, i, col_index, ascending, ub) ==
  IF i > Len(rs) THEN [err |-> "none", rows |-> rs]
  ELSE insertion_step(sort_comp(T, rs[i], rs[1], col_index, ascending, ub),
                      T, rs, i, col_index, ascending, ub)

insertion_step(k, T, rs, i, col_index, ascending, ub) ==
  IF k.err # "none" THEN [err |-> k.err, rows |-> rs]
  ELSE insertion_sort(T, linear_insert(T, rs, i, col_index, ascending, ub),
                      i + 1, col_index, ascending, ub)

sort_by_column(Tb, T, col_name, ascending, ub) ==
  IF ~Contains(Tb.col_map, col_name) THEN Throw("invalid_argument", Tb)
  ELSE LET r == insertion_sort(T, Tb.rows, 2, Tb.col_map[col_name], ascending, ub)
       IN  Throw(r.err, Tbl(Tb.col_names, Tb.col_map, r.rows))

\* std::lower_bound over the len rows from the zero-based index first,
\* with the comparator convert_cell<T>(row[col_index]) < val, and its
\* step once the middle row was converted (row_val).
RECURSIVE binary_search(_, _, _, _, _, _, _)
RECURSIVE binary_step(_, _, _, _, _, _, _, _)
binary_search(T, rs, col_index, value, first, len, ub) ==
  IF len <= 0 THEN [err |-> "none", index |-> first]
  ELSE binary_step(convert_cell(T, rs[first + (len \div 2) + 1][col_index + 1], ub),
                   T, rs, col_index, value, first, len, ub)

binary_step(row_val, T, rs, col_index, value, first, len, ub) ==
  IF row_val.err # "none" THEN [err |-> row_val.err, index |-> 0]
  ELSE IF Less(T, row_val.v, value)
  THEN binary_search(T, rs, col_index, value, first + (len \div 2) + 1,
                     len - (len \div 2) - 1, ub)
  ELSE binary_search(T, rs, col_index, value, first, len \div 2, ub)

\* A returned ConstRowIterator(this, index), and a call that threw e.
Iter(index) ==
  [err |-> "none", ret |-> [kind |-> "iterator", index |-> index, v |-> EmptyStr]]

NoIter(e) == [err |-> e, ret |-> NoRet]

\* The iterator lower_bound makes of the search r.
found_bound(r) == IF r.err # "none" THEN NoIter(r.err) ELSE Iter(r.index)

lower_bound(Tb, T, col_name, value, ub) ==
  IF ~Contains(Tb.col_map, col_name) THEN NoIter("invalid_argument")
  ELSE found_bound(binary_search(T, Tb.rows, Tb.col_map[col_name], value, 0,
                                 Len(Tb.rows), ub))

\* find without the test for equality.
find_lower_bound_only(Tb, T, col_name, value, ub) ==
  lower_bound(Tb, T, col_name, value, ub)

\* The test of find on the row the search stopped at, converted (at).
found_equal(at, T, value, index, end) ==
  IF at.err # "none" THEN NoIter(at.err)
  ELSE IF Equal(T, at.v, value) THEN Iter(index)
  ELSE Iter(end)

\* The iterator find makes of the search r.
found(r, T, rs, col_index, value, ub) ==
  IF r.err # "none" THEN NoIter(r.err)
  ELSE IF r.index = Len(rs) THEN Iter(Len(rs))
  ELSE found_equal(convert_cell(T, rs[r.index + 1][col_index + 1], ub),
                   T, value, r.index, Len(rs))

find(Tb, T, col_name, value, ub) ==
  IF ~Contains(Tb.col_map, col_name) THEN NoIter("invalid_argument")
  ELSE found(binary_search(T, Tb.rows, Tb.col_map[col_name], value, 0,
                           Len(Tb.rows), ub),
             T, Tb.rows, Tb.col_map[col_name], value, ub)

-----------------------------------------------------------------------------
(* Inputs of the table machine.                                            *)

A_ == <<"a">>
B_ == <<"b">>

Names == {A_, B_}

\* Header lines: a, a,b (quoted), a,a, and the empty line.
HeaderLines ==
  { <<"a">>, <<"\"", "a", "\"", ",", "b">>, <<"a", ",", "a">>, <<>> }

\* Data lines of one field and of three fields (1, a missing one, 1).
DataLines ==
  { <<"1">>, <<"1", ",", ",", "1">> }

Files ==
  {[exists |-> FALSE, lines |-> <<>>], [exists |-> TRUE, lines |-> <<>>]}
  \cup {[exists |-> TRUE, lines |-> <<h>> \o d] :
          h \in HeaderLines, d \in SeqsUpTo(DataLines, MaxFileRows)}

CellInputs == {EmptyStr, Int_(1)}

\* Value lists given to append_row: shorter and longer than the rows.
RowInputs == {<<>>, <<Int_(1)>>, <<Int_(1), EmptyStr, Int_(1)>>}

\* Tables passed as other: empty, and well-formed ones over a and b.
Others ==
  { EmptyTable,
    Tbl(<<A_>>, IndexNames(EmptyMap, <<A_>>, 0), <<<<Int_(1)>>>>),
    Tbl(<<B_, A_>>, IndexNames(EmptyMap, <<B_, A_>>, 0),
        <<<<EmptyStr, Int_(1)>>, <<Int_(1), Int_(1)>>>>) }

ColumnLists == SeqsUpTo(Names, 1) \cup {<<A_, B_>>}

\* Name lists given to delete_columns.
NameLists == {<<A_>>, <<A_, B_>>, <<B_, B_>>}

C_ == <<"c">>

\* Arguments of rename_columns, each in the ascending order of its old
\* names in which std::map iterates.
RenameMaps ==
  { <<<<A_, C_>>>>, <<<<A_, B_>>>>, <<<<B_, A_>>>>, <<<<C_, A_>>>>,
    <<<<A_, C_>>, <<B_, A_>>>>, <<<<A_, B_>>, <<B_, C_>>>> }

\* The key lists given to merge: no name twice.
KeyLists == {<<>>, <<A_>>, <<B_>>, <<A_, B_>>}

HowInputs == Hows \cup {"cross"}

-----------------------------------------------------------------------------
(* Calls.                                                                  *)

ReadFile(rec) ==
  /\ Defined
  /\ \E file \in Files :
       Mutate(read_file(this, file), Rec(rec, "read_file", <<>>, "", 0))

AddColumn(rec) ==
  /\ Defined
  /\ \E name \in Names, d \in CellInputs :
       Mutate(add_column(this, name, d), Rec(rec, "add_column", <<name>>, "", 0))

DeleteColumn(rec) ==
  /\ Defined
  /\ \E name \in Names :
       IF ReadsPastEnd(this, Indices(this, <<name>>))
       THEN Undefined
       ELSE Mutate(delete_column(this, name),
                   Rec(rec, "delete_column", <<name>>, "", 0))

\* delete_columns erases a cell of every row for each name before the
\* first unknown one.
DeleteColumnsReadsPastEnd(T, names) ==
  \E k \in DOMAIN names :
    LET o == delete_columns(T, SubSeq(names, 1, k - 1))
    IN  o.err = "none" /\ ReadsPastEnd(o.t, Indices(o.t, <<names[k]>>))

DeleteColumns(rec) ==
  /\ Defined
  /\ \E names \in NameLists :
       IF DeleteColumnsReadsPastEnd(this, names)
       THEN Undefined
       ELSE Mutate(delete_columns(this, names),
                   Rec(rec, "delete_columns", names, "", 0))

RenameColumns(rec) ==
  /\ Defined
  /\ \E rename_map \in RenameMaps :
       Mutate(rename_columns(this, rename_map),
              Rec(rec, "rename_columns", <<>>, "", 0))

AppendRow(rec) ==
  /\ Defined
  /\ \E values \in RowInputs :
       Mutate(append_row(this, values), Rec(rec, "append_row", <<>>, "", 0))

DeleteRow(rec) ==
  /\ Defined
  /\ \E index \in 0..MaxRows :
       Mutate(delete_row(this, index), Rec(rec, "delete_row", <<>>, "", index))

AppendTable(rec) ==
  /\ Defined
  /\ \E O \in Others :
       Mutate(append_table(this, O), Rec(rec, "append_table", <<>>, "", 0))

\* dropna stops reading a row at its first missing cell.
DropNaReadsPastEnd(T, columns) ==
  \E r \in DOMAIN T.rows : \E k \in DOMAIN columns :
    /\ T.col_map[columns[k]] >= Len(T.rows[r])
    /\ \A j \in 1..(k - 1) :
         /\ T.col_map[columns[j]] < Len(T.rows[r])
         /\ ~IsMissingCell(T.rows[r][T.col_map[columns[j]] + 1])

DropNa(rec) ==
  /\ Defined
  /\ \E columns \in ColumnLists :
       IF AllKnown(this, cols_to_check(this, columns))
          /\ DropNaReadsPastEnd(this, cols_to_check(this, columns))
       THEN Undefined
       ELSE Mutate(dropna(this, columns), Rec(rec, "dropna", columns, "", 0))

\* fillna fills the columns before the first unknown name.
RECURSIVE KnownPrefix(_, _)
KnownPrefix(T, columns) ==
  IF columns = <<>> \/ ~Contains(T.col_map, Head(columns)) THEN <<>>
  ELSE <<Head(columns)>> \o KnownPrefix(T, Tail(columns))

FillNa(rec) ==
  /\ Defined
  /\ \E columns \in ColumnLists, v \in CellInputs :
       IF ReadsPastEnd(this, Indices(this, KnownPrefix(this, columns)))
       THEN Undefined
       ELSE Mutate(fillna(this, columns, v), Rec(rec, "fillna", columns, "", 0))

DropDuplicates(rec) ==
  /\ Defined
  /\ \E columns \in ColumnLists :
       IF AllKnown(this, cols_to_check(this, columns))
          /\ ReadsPastEnd(this, Indices(this, cols_to_check(this, columns)))
       THEN Undefined
       ELSE Mutate(drop_duplicates(this, columns),
                   Rec(rec, "drop_duplicates", columns, "", 0))

KeepEveryNthRow(rec) ==
  /\ Defined
  /\ \E n \in -1..2 :
       Mutate(keep_every_nth_row(this, n),
              Rec(rec, "keep_every_nth_row", <<>>, "", n))

SubTable(rec) ==
  /\ Defined
  /\ \E row_indices \in SeqsUpTo(-1..MaxRows, 2) :
       Return(sub_table(this, row_indices), EmptyTable,
              Rec(rec, "sub_table", <<>>, "", 0))

FilterTable(rec) ==
  /\ Defined
  /\ \E pred \in SUBSET (0..(Len(rows) - 1)) :
       Return(filter_table(this, pred), EmptyTable,
              Rec(rec, "filter_table", <<>>, "", 0))

\* merge reads the key cells of every row, and every cell a left column
\* names of the rows it combines or carries over.
MergeReadsPastEnd(L, O, on_columns, how) ==
  \/ ReadsPastEnd(L, Indices(L, on_columns))
  \/ /\ how \in {"inner", "left", "outer"}
     /\ \E r \in DOMAIN L.rows :
          /\ how # "inner"
             \/ row_key(L, L.rows[r], on_columns) \in key_set(O, on_columns)
          /\ \E i \in Indices(L, L.col_names) : i >= Len(L.rows[r])

\* how and on_columns pass the checks merge starts with.
MergeArgsOk(L, O, on_columns, how) ==
  how \in Hows /\ AllKnown(L, on_columns) /\ AllKnown(O, on_columns)

\* merge of the present table with O, under every iteration order of the
\* two key maps.
MergeWith(rec, O, on_columns, how) ==
  IF MergeArgsOk(this, O, on_columns, how)
     /\ MergeReadsPastEnd(this, O, on_columns, how)
  THEN Undefined
  ELSE \E this_order \in Orders(IF MergeArgsOk(this, O, on_columns, how)
                                THEN key_set(this, on_columns) ELSE {}),
          other_order \in Orders(IF MergeArgsOk(this, O, on_columns, how)
                                 THEN key_set(O, on_columns) ELSE {}) :
         Return(merge(this, O, on_columns, how, this_order, other_order), O,
                Rec(rec, "merge", on_columns, how, 0))

Merge(rec) ==
  /\ Defined
  /\ \E O \in Others, on_columns \in KeyLists, how \in HowInputs :
       MergeWith(rec, O, on_columns, how)

\* join reads every mapped cell of the first N rows of the table.
JoinReadsPastEnd(L, O, how) ==
  \E r \in 1..join_count(L, O, how) :
    r <= Len(L.rows) /\ \E i \in Indices(L, L.col_names) : i >= Len(L.rows[r])

JoinWith(rec, O, how) ==
  IF how \in Hows /\ Unmapped(this) = {} /\ JoinReadsPastEnd(this, O, how)
  THEN Undefined
  ELSE Return(join(this, O, how), O, Rec(rec, "join", <<>>, how, 0))

Join(rec) ==
  /\ Defined
  /\ \E O \in Others, how \in HowInputs : JoinWith(rec, O, how)

Init ==
  /\ col_names = <<>>
  /\ col_map = EmptyMap
  /\ rows = <<>>
  /\ other = EmptyTable
  /\ result = EmptyTable
  /\ err = "none"
  /\ last = NoCall
  /\ ret = NoRet
  /\ sorted_by = NoSort

Next ==
  \/ ReadFile(FALSE)
  \/ AddColumn(FALSE)
  \/ DeleteColumn(FALSE)
  \/ DeleteColumns(FALSE)
  \/ RenameColumns(FALSE)
  \/ AppendRow(FALSE)
  \/ DeleteRow(FALSE)
  \/ AppendTable(FALSE)
  \/ DropNa(FALSE)
  \/ FillNa(FALSE)
  \/ DropDuplicates(FALSE)
  \/ KeepEveryNthRow(FALSE)
  \/ SubTable(FALSE)
  \/ FilterTable(FALSE)
  \/ Merge(FALSE)
  \/ Join(FALSE)

Spec == Init /\ [][Next]_vars

-----------------------------------------------------------------------------
(* Table invariants.                                                       *)

\* Every row of T has as many cells as T has column names.
RowsMatchColumns(T) ==
  \A r \in DOMAIN T.rows : Len(T.rows[r]) = Len(T.col_names)

\* The column names of T are pairwise distinct.
NamesDistinct(T) ==
  \A i, j \in DOMAIN T.col_names : T.col_names[i] = T.col_names[j] => i = j

\* col_map has exactly one entry per column name and maps the name at
\* position i (zero-based) to i.
MapConsistent(T) ==
  /\ DOMAIN T.col_map = Range(T.col_names)
  /\ \A i \in DOMAIN T.col_names : T.col_map[T.col_names[i]] = i - 1

\* C1: in every table reachable from the empty table by read_file,
\* add_column, delete_column, append_row, delete_row, append_table, dropna,
\* fillna, drop_duplicates and keep_every_nth_row, and in every table
\* returned by sub_table, filter_table, merge or join on such a table, each
\* row has exactly as many cells as the table has column names.
C1_RowLengthEqualsColumnCount ==
  RowsMatchColumns(this) /\ RowsMatchColumns(result)

\* C3: column names are pairwise distinct in every table produced by
\* read_file, add_column, rename_columns, append_table, merge and join,
\* starting from an empty table.
C3_ColumnNamesDistinct ==
  NamesDistinct(this) /\ NamesDistinct(result)

-----------------------------------------------------------------------------
(* The schema machine: the column operations (and append_row, so that the  *)
(* columns deleted hold cells) from the empty table, every call recorded.  *)

NextSchema ==
  \/ AddColumn(TRUE)
  \/ DeleteColumn(TRUE)
  \/ DeleteColumns(TRUE)
  \/ RenameColumns(TRUE)
  \/ AppendRow(TRUE)

SpecSchema == Init /\ [][NextSchema]_vars

\* C2: after any sequence of add_column, delete_column, delete_columns and
\* rename_columns calls (those that throw included), col_map has exactly
\* one entry per column name and maps the name at position i to i; and a
\* delete_column of the column at position k has decremented the index of
\* every column that was after k and of no other column.
C2_MapMatchesColumnNames ==
  /\ MapConsistent(this)
  /\ (last.op = "delete_column" /\ err = "none") =>
       LET k == last.pre.col_map[last.names[1]]
       IN  \A n \in DOMAIN col_map :
             col_map[n] = IF last.pre.col_map[n] > k
                          THEN last.pre.col_map[n] - 1
                          ELSE last.pre.col_map[n]

\* A column was deleted in front of another one, whose index went down.
C2_Witness ==
  /\ last.op = "delete_column"
  /\ err = "none"
  /\ \E n \in DOMAIN col_map :
       last.pre.col_map[n] > last.pre.col_map[last.names[1]]
  /\ rows # <<>>

-----------------------------------------------------------------------------
(* merge and join on well-formed tables.  The table the call is made on    *)
(* and the table passed to it are drawn at the start; one call is made,    *)
(* which records itself and leaves its return value in result.             *)

MaxRelRows == 2

B_other == B_ \o Other_

\* Rows of two cells.  The first and second agree on the formatted text of
\* their first cell (1 and 1.0 both print as 1) though not on its type;
\* the first and third agree on their second cell.
RelRows == { <<Int_(1), Int_(1)>>, <<Dbl(10), Int_(2)>>, <<Int_(2), Int_(1)>> }

RelRows1 == { <<Int_(1)>>, <<Int_(2)>> }

RelRows3 == { <<Int_(1), Int_(1), Int_(2)>>, <<Int_(2), Int_(1), Int_(1)>> }

\* The well-formed tables with the given names and rows from rs.
TablesOver(names, rs) ==
  {Tbl(names, IndexNames(EmptyMap, names, 0), r) : r \in SeqsUpTo(rs, MaxRelRows)}

RelLefts ==
  TablesOver(<<A_, B_>>, RelRows) \cup TablesOver(<<A_, B_, B_other>>, RelRows3)

RelOthers ==
  TablesOver(<<A_, B_>>, RelRows) \cup TablesOver(<<B_, A_>>, RelRows)
    \cup TablesOver(<<A_>>, RelRows1)

InitRel ==
  /\ \E L \in RelLefts :
       /\ col_names = L.col_names
       /\ col_map = L.col_map
       /\ rows = L.rows
  /\ other \in RelOthers
  /\ result = EmptyTable
  /\ err = "none"
  /\ last = NoCall
  /\ ret = NoRet
  /\ sorted_by = NoSort

MergeTables ==
  /\ last = NoCall
  /\ \E on_columns \in KeyLists, how \in HowInputs :
       MergeWith(TRUE, other, on_columns, how)

JoinTables ==
  /\ last = NoCall
  /\ \E how \in HowInputs : JoinWith(TRUE, other, how)

NextRel == MergeTables \/ JoinTables

SpecRel == InitRel /\ [][NextRel]_vars

-----------------------------------------------------------------------------
(* What merge is to return, stated over the recorded call: the table it    *)
(* was made on (this), its argument (other) and its key list (last.names). *)
(* Result rows are laid out as the left columns followed by other's        *)
(* non-key columns, and compared as bags: the order of the key buckets is  *)
(* not the caller's to know.                                               *)

MergeReturned(how) == last.op = "merge" /\ last.how = how /\ err = "none"

\* The canonical key of a row: its formatted key cells joined with "|".
CanonicalKey(T, row) ==
  Flatten([k \in DOMAIN last.names |->
             cell_to_string(row[T.col_map[last.names[k]] + 1]) \o <<"|">>])

KeysMatch(i, j) == CanonicalKey(this, rows[i]) = CanonicalKey(other, other.rows[j])

IsKeyName(n) == \E k \in DOMAIN last.names : last.names[k] = n

\* The positions in other of its non-key columns, ascending.
OtherNonKeys ==
  LET nonkey(p) == ~IsKeyName(other.col_names[p])
  IN  SelectIdx([p \in DOMAIN other.col_names |-> p], nonkey, 1)

PairRow(i, j) ==
  rows[i] \o [q \in DOMAIN OtherNonKeys |-> other.rows[j][OtherNonKeys[q]]]

PairRows ==
  Flatten([i \in DOMAIN rows |->
    Flatten([j \in DOMAIN other.rows |->
      IF KeysMatch(i, j) THEN <<PairRow(i, j)>> ELSE <<>>])])

LeftUnmatched(i) == \A j \in DOMAIN other.rows : ~KeysMatch(i, j)

RightUnmatched(j) == \A i \in DOMAIN rows : ~KeysMatch(i, j)

LeftOnlyRow(i) == rows[i] \o [q \in DOMAIN OtherNonKeys |-> EmptyStr]

LeftOnlyRows ==
  Flatten([i \in DOMAIN rows |->
             IF LeftUnmatched(i) THEN <<LeftOnlyRow(i)>> ELSE <<>>])

RightOnlyRow(j) ==
  [k \in DOMAIN col_names |->
     IF IsKeyName(col_names[k])
     THEN other.rows[j][other.col_map[col_names[k]] + 1]
     ELSE EmptyStr]
  \o [q \in DOMAIN OtherNonKeys |-> other.rows[j][OtherNonKeys[q]]]

RightOnlyRows ==
  Flatten([j \in DOMAIN other.rows |->
             IF RightUnmatched(j) THEN <<RightOnlyRow(j)>> ELSE <<>>])

\* C4: an inner merge returns one row for every pair of a left and a right
\* row with equal canonical keys and no other row; the row holds the left
\* row's cells in the left columns and the right row's cells in other's
\* non-key columns.
C4_InnerMergePairs ==
  MergeReturned("inner") => SameBag(result.rows, PairRows)

\* An inner merge on column a against a table that lists a last: one left
\* row matches two right rows (1 and 1.0 format alike), another none.
C4_Witness ==
  /\ MergeReturned("inner")
  /\ last.names = <<A_>>
  /\ other.col_names = <<B_, A_>>
  /\ \E i \in DOMAIN rows : \E j1, j2 \in DOMAIN other.rows :
       /\ rows[i][1] = Dbl(10)
       /\ j1 # j2 /\ KeysMatch(i, j1) /\ KeysMatch(i, j2)
       /\ other.rows[j1][1] # other.rows[j2][1]
  /\ \E i \in DOMAIN rows : LeftUnmatched(i)

\* C5: in a left or outer merge every left row without a match yields
\* exactly one result row, holding the left row's own cells in the left
\* columns (the key columns too) and empty text in other's non-key
\* columns, wherever the key columns sit in other.
C5_UnmatchedLeftRows ==
  (MergeReturned("left") \/ MergeReturned("outer")) =>
    \A i \in DOMAIN rows :
      LeftUnmatched(i) =>
        Count(result.rows, LeftOnlyRow(i)) = Count(LeftOnlyRows, LeftOnlyRow(i))

\* C6: a right merge returns one row for every matched pair and one row
\* for every right row whose key is absent on the left (keys from the
\* right row, left non-key columns empty, other's non-key columns from the
\* right row).
C6_RightMergeRows ==
  MergeReturned("right") => SameBag(result.rows, PairRows \o RightOnlyRows)

\* C7: an outer merge returns exactly one row per matched pair, one per
\* left row without a match and one per right row without a match; a
\* right row whose key is on the left appears in its pairs only.
C7_OuterMergeRows ==
  MergeReturned("outer") =>
    SameBag(result.rows, PairRows \o LeftOnlyRows \o RightOnlyRows)

\* The k-th name tried for a column named n: n, n_other, n_other1, ...
Candidate(n, k) ==
  IF k = 0 THEN n
  ELSE n \o <<"_", "o", "t", "h", "e", "r">>
         \o (IF k = 1 THEN <<>> ELSE NatToString(k - 1))

\* The first candidate for n that is not among the names acc.
FirstFree(acc, n) ==
  Candidate(n, CHOOSE k \in 0..Len(acc) :
                 /\ Candidate(n, k) \notin Range(acc)
                 /\ \A m \in 0..(k - 1) : Candidate(n, m) \in Range(acc))

\* acc followed by a free name for each of names, in order.
RECURSIVE WithFreeNames(_, _)
WithFreeNames(acc, names) ==
  IF names = <<>> THEN acc
  ELSE WithFreeNames(Append(acc, FirstFree(acc, Head(names))), Tail(names))

\* C8: a merge result is named by the left names in order, then other's
\* non-key columns in other's order, a colliding name replaced by the
\* first of name_other, name_other1, name_other2, ... that is free; each
\* key column appears once, the names are pairwise distinct and the
\* name-to-index mapping matches their positions.
C8_MergeResultNames ==
  (last.op = "merge" /\ err = "none") =>
    /\ result.col_names =
         WithFreeNames(col_names,
                       [q \in DOMAIN OtherNonKeys |-> other.col_names[OtherNonKeys[q]]])
    /\ \A k \in DOMAIN last.names : Count(result.col_names, last.names[k]) = 1
    /\ NamesDistinct(result)
    /\ MapConsistent(result)

\* A merge on key a whose left table already holds b and b_other, so
\* that other's b becomes b_other1.
C8_Witness ==
  /\ last.op = "merge"
  /\ err = "none"
  /\ last.names = <<A_>>
  /\ other.col_names = <<B_, A_>>
  /\ result.col_names = <<A_, B_, B_other, B_other \o <<"1">> >>
  /\ result.rows # <<>>

\* C9: join returns N rows, N being min(|left|, |right|) for inner, |left|
\* for left, |right| for right and max(|left|, |right|) for outer; result
\* row i is left row i (empty text of left width beyond the left rows)
\* followed by right row i (empty text of right width beyond the right
\* rows); any other how raises invalid_argument.
C9_JoinRows ==
  last.op = "join" =>
    LET l == Len(rows)
        r == Len(other.rows)
        N == CASE last.how = "inner" -> IF l < r THEN l ELSE r
               [] last.how = "left"  -> l
               [] last.how = "right" -> r
               [] last.how = "outer" -> IF l < r THEN r ELSE l
               [] OTHER -> 0
        left_part(i) == IF i <= l THEN rows[i]
                        ELSE [k \in DOMAIN col_names |-> EmptyStr]
        right_part(i) == IF i <= r THEN other.rows[i]
                         ELSE [k \in DOMAIN other.col_names |-> EmptyStr]
    IN  IF last.how \in {"inner", "left", "right", "outer"}
        THEN /\ err = "none"
             /\ result.rows = [i \in 1..N |-> left_part(i) \o right_part(i)]
        ELSE err = "invalid_argument"

\* An outer join of a table with fewer rows than other: the last result
\* row starts with empty text of left width.
C9_Witness ==
  /\ last.op = "join"
  /\ last.how = "outer"
  /\ err = "none"
  /\ 0 < Len(rows)
  /\ Len(rows) < Len(other.rows)
  /\ Len(result.rows) = Len(other.rows)
  /\ Len(other.col_names) = 2

-----------------------------------------------------------------------------
(* drop_duplicates, called again and again on a table drawn at the start.  *)

MaxDedupRows == 3

\* Rows of two cells; 1 and 1.0 differ as cells and format alike.
DedupRows ==
  { <<Int_(1), Int_(1)>>, <<Dbl(10), Int_(1)>>, <<Int_(1), Int_(2)>>,
    <<Int_(2), Int_(1)>> }

DedupTables ==
  {Tbl(<<A_, B_>>, IndexNames(EmptyMap, <<A_, B_>>, 0), r) :
     r \in SeqsUpTo(DedupRows, MaxDedupRows)}
  \cup {Tbl(<<A_>>, IndexNames(EmptyMap, <<A_>>, 0), r) :
          r \in SeqsUpTo(RelRows1, MaxDedupRows)}

InitDedup ==
  /\ \E T \in DedupTables :
       /\ col_names = T.col_names
       /\ col_map = T.col_map
       /\ rows = T.rows
  /\ other = EmptyTable
  /\ result = EmptyTable
  /\ err = "none"
  /\ last = NoCall
  /\ ret = NoRet
  /\ sorted_by = NoSort

NextDedup == DropDuplicates(TRUE)

SpecDedup == InitDedup /\ [][NextDedup]_vars

\* The canonical key of a row of the table before the call, over the
\* columns the call names (all columns when it names none).
DedupKey(row) ==
  LET cols == IF last.names = <<>> THEN last.pre.col_names ELSE last.names
  IN  Flatten([k \in DOMAIN cols |->
                 cell_to_string(row[last.pre.col_map[cols[k]] + 1]) \o <<"|">>])

\* No earlier row of the table before the call has the key of its row i.
FirstOfItsKey(i) ==
  \A j \in 1..(i - 1) : DedupKey(last.pre.rows[j]) # DedupKey(last.pre.rows[i])

\* C10: drop_duplicates keeps, in their original order, exactly the first
\* row of each distinct canonical key, and a second call with the same
\* columns changes nothing.
C10_DropDuplicatesFirstAndIdempotent ==
  (last.op = "drop_duplicates" /\ err = "none") =>
    /\ col_names = last.pre.col_names
    /\ rows = SelectIdx(last.pre.rows, FirstOfItsKey, 1)
    /\ drop_duplicates(this, last.names) = Ok(this)

\* A call on column a that dropped a row holding 1.0 after a row holding
\* 1, and kept two rows.
C10_Witness ==
  /\ last.op = "drop_duplicates"
  /\ err = "none"
  /\ last.names = <<A_>>
  /\ Len(rows) = 2
  /\ Len(last.pre.rows) = 3
  /\ \E i, j \in DOMAIN last.pre.rows :
       /\ i < j
       /\ last.pre.rows[i][1] = Int_(1)
       /\ last.pre.rows[j][1] = Dbl(10)
  /\ \A r \in DOMAIN rows : rows[r][1] # Dbl(10)

-----------------------------------------------------------------------------
(* dropna, called again and again on a table drawn at the start.           *)

MaxDropNaRows == 2

\* Cells of a checked column: the four missing texts, two texts that are
\* not missing (x and the lower-case na) and an integer.
NaCells ==
  { EmptyStr, Str(NA_), Str(NaN_), Str(HashNA_), Str(<<"x">>),
    Str(<<"n", "a">>), Int_(1) }

\* Rows of two cells with at most one cell that is not 1.
DropNaRows ==
  {<<c, Int_(1)>> : c \in NaCells} \cup {<<Int_(1), c>> : c \in NaCells}

DropNaTables ==
  {Tbl(<<A_, B_>>, IndexNames(EmptyMap, <<A_, B_>>, 0), r) :
     r \in SeqsUpTo(DropNaRows, MaxDropNaRows)}
  \cup {Tbl(<<A_>>, IndexNames(EmptyMap, <<A_>>, 0), r) :
          r \in SeqsUpTo({<<c>> : c \in {EmptyStr, Int_(1)}}, MaxDropNaRows)}

InitDropNa ==
  /\ \E T \in DropNaTables :
       /\ col_names = T.col_names
       /\ col_map = T.col_map
       /\ rows = T.rows
  /\ other = EmptyTable
  /\ result = EmptyTable
  /\ err = "none"
  /\ last = NoCall
  /\ ret = NoRet
  /\ sorted_by = NoSort

NextDropNa == DropNa(TRUE)

SpecDropNa == InitDropNa /\ [][NextDropNa]_vars

\* The cell is a text equal to "", "NA", "NaN" or "#N/A".
MissingTextCell(c) ==
  /\ c.t = "string"
  /\ c.v \in {<<>>, <<"N", "A">>, <<"N", "a", "N">>, <<"#", "N", "/", "A">>}

\* Row i of the table before the call has no missing text in a column the
\* call names (in any column when it names none).
NoneMissing(i) ==
  LET cols == IF last.names = <<>> THEN last.pre.col_names ELSE last.names
  IN  \A k \in DOMAIN cols :
        ~MissingTextCell(last.pre.rows[i][last.pre.col_map[cols[k]] + 1])

\* C11: dropna removes exactly the rows with a missing text ("", "NA",
\* "NaN", "#N/A") in at least one named column (any column when the list
\* is empty) and keeps the other rows unchanged in their original order.
C11_DropNaRemovesMissingRows ==
  (last.op = "dropna" /\ err = "none") =>
    /\ col_names = last.pre.col_names
    /\ col_map = last.pre.col_map
    /\ rows = SelectIdx(last.pre.rows, NoneMissing, 1)

\* A dropna over all columns that dropped a row for the #N/A in its
\* second column and kept a row holding the text na.
C11_Witness ==
  /\ last.op = "dropna"
  /\ err = "none"
  /\ last.names = <<>>
  /\ Len(last.pre.rows) = 2
  /\ \E r \in DOMAIN last.pre.rows : last.pre.rows[r] = <<Int_(1), Str(HashNA_)>>
  /\ rows = <<<<Str(<<"n", "a">>), Int_(1)>>>>

-----------------------------------------------------------------------------
(* Sorting and searching: one sort_by_column<T> on a table of two columns  *)
(* a and b, and lower_bound<T> and find<T> before or after it.  The cells  *)
(* of a are integers, the text 3, a text that is no number and the double  *)
(* read from the text nan; the cell of b is the row's first position.      *)

MaxSortRows == 3

SortCells == {Int_(1), Int_(2), Str(<<"3">>), Str(<<"b">>), NaNDbl}

SortTypes == {"int", "double", "string"}

\* The values static_cast<uint64_t> may yield where it is undefined.
UbU64s == {<<"0">>, ULLONG_MAX_DIGITS}

SortRows(cells) == [r \in DOMAIN cells |-> <<cells[r], Int_(r)>>]

\* The rows read from the lines 1, 3, nan, 2.
NanRows == SortRows(<<Int_(1), Str(<<"3">>), NaNDbl, Int_(2)>>)

SortTables ==
  {Tbl(<<A_, B_>>, IndexNames(EmptyMap, <<A_, B_>>, 0), rs) :
     rs \in {SortRows(cells) : cells \in SeqsUpTo(SortCells, MaxSortRows)}
            \cup {NanRows}}

SearchValues(T) ==
  CASE T = "int"    -> {Int_(0), Int_(2), Int_(4)}
    [] T = "double" -> {Dbl(0), Dbl(20), Dbl(40)}
    [] T = "string" -> {Str(<<"3">>), Str(<<"a">>), Str(<<"c">>)}

\* A sort_by_column<T>(col_name, ascending) with the outcome o and the
\* call record c.
Sort(o, T, col_name, ascending, c) ==
  /\ col_names' = o.t.col_names
  /\ col_map' = o.t.col_map
  /\ rows' = o.t.rows
  /\ err' = o.err
  /\ last' = c
  /\ other' = EmptyTable
  /\ result' = EmptyTable
  /\ ret' = NoRet
  /\ sorted_by' = IF o.err = "none" /\ ascending
                  THEN [T |-> T, name |-> col_name] ELSE NoSort

SortByColumn(rec) ==
  /\ Defined
  /\ last = NoCall
  /\ \E T \in SortTypes, col_name \in {A_, C_}, ascending \in BOOLEAN, ub \in UbU64s :
       IF ReadsPastEnd(this, Indices(this, <<col_name>>))
       THEN Undefined
       ELSE Sort(sort_by_column(this, T, col_name, ascending, ub),
                 T, col_name, ascending,
                 Rec(rec, "sort_by_column", <<col_name>>, T,
                     IF ascending THEN 1 ELSE 0))

\* A const member call that returns an iterator: outcome o, the value
\* searched for, call record c.
Search(o, value, c) ==
  /\ ret' = [o.ret EXCEPT !.v = value]
  /\ err' = o.err
  /\ last' = c
  /\ UNCHANGED <<col_names, col_map, rows, other, result, sorted_by>>

LowerBound(rec) ==
  /\ Defined
  /\ last.op \in {"none", "sort_by_column"}
  /\ \E T \in SortTypes, col_name \in {A_, C_}, ub \in UbU64s :
       \E value \in SearchValues(T) :
         IF ReadsPastEnd(this, Indices(this, <<col_name>>))
         THEN Undefined
         ELSE Search(lower_bound(this, T, col_name, value, ub), value,
                     Rec(rec, "lower_bound", <<col_name>>, T, 0))

Find(rec) ==
  /\ Defined
  /\ last.op \in {"none", "sort_by_column"}
  /\ \E T \in SortTypes, col_name \in {A_, C_}, ub \in UbU64s :
       \E value \in SearchValues(T) :
         IF ReadsPastEnd(this, Indices(this, <<col_name>>))
         THEN Undefined
         ELSE Search(find(this, T, col_name, value, ub), value,
                     Rec(rec, "find", <<col_name>>, T, 0))

InitSort ==
  /\ \E T \in SortTables :
       /\ col_names = T.col_names
       /\ col_map = T.col_map
       /\ rows = T.rows
  /\ other = EmptyTable
  /\ result = EmptyTable
  /\ err = "none"
  /\ last = NoCall
  /\ ret = NoRet
  /\ sorted_by = NoSort

NextSort == SortByColumn(TRUE) \/ LowerBound(TRUE) \/ Find(TRUE)

SpecSort == InitSort /\ [][NextSort]_vars

\* The zero-based index of the column the last call named.
LastCol == last.pre.col_map[last.names[1]]

LastColKnown == Contains(last.pre.col_map, last.names[1])

\* Every cell of column c of the rows rs coerces to T.
AllCoercible(T, rs, c) ==
  \A r \in DOMAIN rs : \A ub \in UbU64s :
    convert_cell(T, rs[r][c + 1], ub).err = "none"

\* The coerced values of column c (no type the model sorts by converts a
\* double to uint64_t, so the values do not depend on ub).
Coerced(T, rs, c) ==
  [r \in DOMAIN rs |-> convert_cell(T, rs[r][c + 1], <<"0">>).v]

LessEq(T, x, y) == Less(T, x, y) \/ Equal(T, x, y)

NonDecreasing(T, vs) ==
  \A i, j \in DOMAIN vs : i < j => LessEq(T, vs[i], vs[j])

NonIncreasing(T, vs) ==
  \A i, j \in DOMAIN vs : i < j => LessEq(T, vs[j], vs[i])

\* C12: when every cell of the named column is coercible to T,
\* sort_by_column<T>(name, ascending) returns and leaves a permutation of
\* the rows it found, with the coerced values of the column non-decreasing
\* when ascending and non-increasing otherwise.
C12_SortOrdersRows ==
  (/\ last.op = "sort_by_column"
   /\ LastColKnown
   /\ AllCoercible(last.how, last.pre.rows, LastCol)) =>
    /\ err = "none"
    /\ col_names = last.pre.col_names
    /\ col_map = last.pre.col_map
    /\ SameBag(rows, last.pre.rows)
    /\ IF last.n = 1
       THEN NonDecreasing(last.how, Coerced(last.how, rows, LastCol))
       ELSE NonIncreasing(last.how, Coerced(last.how, rows, LastCol))

\* The column the last search named, in the present table.
SearchedCol == col_map[last.names[1]]

\* The zero-based index of the first of the values vs that Hit holds of,
\* Len(vs) when there is none.
FirstIndex(vs, Hit(_)) ==
  IF \E i \in DOMAIN vs : Hit(vs[i])
  THEN (CHOOSE i \in DOMAIN vs : Hit(vs[i]) /\ \A j \in 1..(i - 1) : ~Hit(vs[j])) - 1
  ELSE Len(vs)

\* The index lower_bound<T>(name, v) is to return: of the first row whose
\* coerced value is not less than v.
FirstNotLess(T, vs, v) ==
  LET NotLess(x) == ~Less(T, x, v) IN FirstIndex(vs, NotLess)

\* The index find<T>(name, v) is to return: of the first row whose coerced
\* value equals v.
FirstEqual(T, vs, v) ==
  LET Same(x) == Equal(T, x, v) IN FirstIndex(vs, Same)

\* C13: after sort_by_column<T>(name, true), lower_bound<T>(name, v)
\* returns the iterator at the smallest row index whose coerced value is
\* not less than v, and end when every row's value is less than v (for
\* the tables whose cells all coerce to T).
C13_LowerBoundAfterSort ==
  (/\ last.op = "lower_bound"
   /\ sorted_by = [T |-> last.how, name |-> last.names[1]]
   /\ AllCoercible(last.how, rows, SearchedCol)) =>
    /\ err = "none"
    /\ ret.kind = "iterator"
    /\ ret.index = FirstNotLess(last.how, Coerced(last.how, rows, SearchedCol), ret.v)

\* C14: on a table whose column is sorted ascending, find<T>(name, v)
\* returns the iterator at the first row whose coerced value equals v, and
\* end when there is none; an unknown column name throws invalid_argument.
C14_FindOnSortedTable ==
  last.op = "find" =>
    IF ~Contains(col_map, last.names[1])
    THEN err = "invalid_argument"
    ELSE (/\ AllCoercible(last.how, rows, SearchedCol)
          /\ NonDecreasing(last.how, Coerced(last.how, rows, SearchedCol))) =>
           /\ err = "none"
           /\ ret.kind = "iterator"
           /\ ret.index = FirstEqual(last.how, Coerced(last.how, rows, SearchedCol), ret.v)

\* find<int>("a", 2) on the rows 1, 2, 2 returned the iterator at row 1.
C14_Witness ==
  /\ last.op = "find"
  /\ last.how = "int"
  /\ err = "none"
  /\ ret.v = Int_(2)
  /\ Len(rows) = 3
  /\ rows[1][1] = Int_(1)
  /\ rows[2][1] = Int_(2)
  /\ rows[3][1] = Int_(2)
  /\ ret.index = 1

-----------------------------------------------------------------------------
(* Parsing and formatting: a one-column table that reads a text as         *)
(* read_file reads a data line of one field (a row with the cell           *)
(* parse_cell returns), and formats the cell of its last row as            *)
(* save_to_file does (cell_to_string); ret holds the text in hand.         *)

MaxTextLen == 3

MaxParses == 2

TextChars == {"0", "1", "-", "."}

\* Texts over TextChars, and texts that parse to each alternative, to
\* integers around the ends of int and uint64_t and to large doubles.
CodecTexts ==
  SeqsUpTo(TextChars, MaxTextLen)
  \cup { True_, False_, NA_, Nan_, <<"x">>, <<"2", ".", "5">>,
         <<"-">> \o INT_MIN_DIGITS,
         <<"2", "1", "4", "7", "4", "8", "3", "6", "4", "8">>,
         <<"4", "2", "9", "4", "9", "6", "7", "2", "9", "6">>,
         ULLONG_MAX_DIGITS,
         <<"-">> \o ULLONG_MAX_DIGITS,
         <<"-", "5", "0", "0", "0", "0", "0", "0", "0", "0", "0">>,
         <<"1", "0", "0", "0", "0", "0", "0", "0", "0", "0", ".", "0">>,
         <<"3", "0", "0", "0", "0", "0", "0", "0", "0", "0", ".", "0">>,
         <<"-", "3", "0", "0", "0", "0", "0", "0", "0", "0", "0", ".", "0">> }

TextInHand(s) == [kind |-> "text", index |-> 0, v |-> Str(s)]

\* The ints static_cast<int>(d) may yield where it is undefined.
UbInts == {-2147483647 - 1, 0, 2147483647}

ParseCell(rec) ==
  /\ ret.kind = "text"
  /\ Len(rows) < MaxParses
  /\ rows' = Append(rows, <<parse_cell(ret.v.v)>>)
  /\ ret' = NoRet
  /\ last' = Rec(rec, "parse_cell", <<ret.v.v>>, "", 0)
  /\ UNCHANGED <<col_names, col_map, other, result, err, sorted_by>>

CellToString(rec) ==
  /\ ret = NoRet
  /\ rows # <<>>
  /\ \E ub \in UbInts :
       ret' = TextInHand(cell_to_string_ub(rows[Len(rows)][1], ub))
  /\ last' = Rec(rec, "cell_to_string", <<>>, "", 0)
  /\ UNCHANGED <<col_names, col_map, rows, other, result, err, sorted_by>>

InitCodec ==
  /\ col_names = <<A_>>
  /\ col_map = IndexNames(EmptyMap, <<A_>>, 0)
  /\ rows = <<>>
  /\ other = EmptyTable
  /\ result = EmptyTable
  /\ err = "none"
  /\ last = NoCall
  /\ \E s \in CodecTexts : ret = TextInHand(s)
  /\ sorted_by = NoSort

NextCodec == ParseCell(TRUE) \/ CellToString(TRUE)

SpecCodec == InitCodec /\ [][NextCodec]_vars

\* A double whose value is integral (equals its floor).
IsIntegral(c) ==
  c.t = "double" /\ ~IsNaN(c) /\ (IsBig(c) \/ c.v % 10 = 0)

\* The decimal digits of the integer an integral double holds, with "-"
\* before the digits of a negative one.
IntegerText(c) ==
  IF IsBig(c) THEN (IF c.neg THEN <<"-">> ELSE <<>>) \o c.big
  ELSE IF c.v < 0 THEN <<"-">> \o NatToString((0 - c.v) \div 10)
  ELSE NatToString(c.v \div 10)

\* C15: for every cell c that parse_cell returns, parse_cell of
\* cell_to_string(c) is c when c holds an int, a uint64_t or a bool, and
\* the int v when c holds a double of integral value v.
C15_ParseFormatRoundTrip ==
  (last.op = "parse_cell" /\ Len(rows) = 2) =>
    /\ rows[1][1].t \in {"int", "uint64_t", "bool"} => rows[2][1] = rows[1][1]
    /\ IsIntegral(rows[1][1]) =>
         /\ rows[2][1].t = "int"
         /\ to_string(rows[2][1].v) = IntegerText(rows[1][1])

\* C16: cell_to_string of a double of integral value is the decimal
\* representation of that integer, also when its magnitude exceeds the
\* range of int.
C16_IntegralDoubleFormat ==
  (last.op = "cell_to_string" /\ IsIntegral(rows[Len(rows)][1])) =>
    ret.v.v = IntegerText(rows[Len(rows)][1])

-----------------------------------------------------------------------------
(* Saving and reading back: save_to_file writes the table as a text, and   *)
(* read_file reads that text into another, empty table.  After             *)
(* save_to_file ret holds the text of the file (kind "file") or the fact   *)
(* that none was written (kind "nofile"); result is the table read.        *)

MaxSavedCells == 2

Newline == "\n"

\* The fields with a comma between each two.
RECURSIVE Joined(_)
Joined(fields) ==
  IF fields = <<>> THEN <<>>
  ELSE IF Len(fields) = 1 THEN fields[1]
  ELSE fields[1] \o <<",">> \o Joined(Tail(fields))

\* A row with a comma after every cell.
save_row_trailing_comma(row, ub) ==
  Joined([i \in DOMAIN row |-> cell_to_string_ub(row[i], ub)]) \o <<",">>

\* The line save_to_file writes for a row.
save_row(row, ub) ==
  Joined([i \in DOMAIN row |-> cell_to_string_ub(row[i], ub)])

RECURSIVE save_rows(_, _)
save_rows(rs, ub) ==
  IF rs = <<>> THEN <<>>
  ELSE save_row(Head(rs), ub) \o <<Newline>> \o save_rows(Tail(rs), ub)

\* The text save_to_file writes.
save_to_file(Tb, ub) ==
  Joined(Tb.col_names) \o <<Newline>> \o save_rows(Tb.rows, ub)

\* The lines std::getline reads from a text.
RECURSIVE getlines(_, _)
getlines(text, line) ==
  IF text = <<>> THEN (IF line = <<>> THEN <<>> ELSE <<line>>)
  ELSE IF Head(text) = Newline THEN <<line>> \o getlines(Tail(text), <<>>)
  ELSE getlines(Tail(text), Append(line, Head(text)))

\* The file read_file finds after the save_to_file that left ret.
SavedFile(r) ==
  IF r.kind = "file" THEN [exists |-> TRUE, lines |-> getlines(r.v.v, <<>>)]
  ELSE [exists |-> FALSE, lines |-> <<>>]

SavedNames == {A_, B_, <<>>, <<"\"", "a", "\"">>}

\* Missing texts, texts with a comma, with double quotes and with a
\* newline, an int, and doubles within and beyond the range of int.
SavedCells ==
  { EmptyStr, Str(NA_), Str(<<"a", ",", "b">>), Str(<<"\"", "x", "\"">>),
    Str(<<"x", Newline, "1">>), Int_(1), Dbl(20),
    BigDbl(FALSE, <<"3", "0", "0", "0", "0", "0", "0", "0", "0", "0">>) }

\* save_to_file(filename): the file can be opened for writing or not.
SaveToFile(rec) ==
  /\ Defined
  /\ last = NoCall
  /\ \E can_open \in BOOLEAN, ub \in UbInts :
       IF can_open
       THEN ret' = [kind |-> "file", index |-> 0, v |-> Str(save_to_file(this, ub))]
            /\ err' = "none"
       ELSE ret' = [kind |-> "nofile", index |-> 0, v |-> EmptyStr]
            /\ err' = "runtime_error"
  /\ last' = Rec(rec, "save_to_file", <<>>, "", 0)
  /\ UNCHANGED <<col_names, col_map, rows, other, result, sorted_by>>

\* read_file(filename) on an empty table, of the file saved before; the
\* file stays as it is.
ReadSaved(rec) ==
  /\ Defined
  /\ last.op = "save_to_file"
  /\ result' = read_file(EmptyTable, SavedFile(ret)).t
  /\ err' = read_file(EmptyTable, SavedFile(ret)).err
  /\ last' = Rec(rec, "read_file", <<>>, "", 0)
  /\ UNCHANGED <<col_names, col_map, rows, other, ret, sorted_by>>

\* The table saved: well-formed, of at most MaxSavedCells cells.
InitSaved ==
  /\ \E n \in 0..MaxSavedCells :
       \E m \in 0..(IF n = 0 THEN 0 ELSE MaxSavedCells \div n) :
         \E cn \in [1..n -> SavedNames], rs \in [1..m -> [1..n -> SavedCells]] :
           /\ col_names = cn
           /\ col_map = IndexNames(EmptyMap, cn, 0)
           /\ rows = rs
  /\ other = EmptyTable
  /\ result = EmptyTable
  /\ err = "none"
  /\ last = NoCall
  /\ ret = NoRet
  /\ sorted_by = NoSort

NextSaved == SaveToFile(TRUE) \/ ReadSaved(TRUE)

SpecSaved == InitSaved /\ [][NextSaved]_vars

\* The text has no comma, newline or double quote.
PlainText(s) == \A i \in DOMAIN s : s[i] \notin {",", Newline, "\""}

\* The table's column names are plain texts, none empty (a column name is
\* a non-empty text), and its text cells are plain.
PlainTable(Tb) ==
  /\ \A i \in DOMAIN Tb.col_names :
       Tb.col_names[i] # <<>> /\ PlainText(Tb.col_names[i])
  /\ \A r \in DOMAIN Tb.rows : \A i \in DOMAIN Tb.rows[r] :
       Tb.rows[r][i].t = "string" => PlainText(Tb.rows[r][i].v)

-----------------------------------------------------------------------------
(* set_column_type<T>(col_name, skip_errors, default_value) on a table of  *)
(* two columns a and b; the cell of b is the row's position.               *)

MaxTypeRows == 2

\* An outcome for one cell: the exception thrown ("none" when the loop goes
\* on) and the cell as it is left.
CellSet(cell) == [err |-> "none", cell |-> cell]

CellThrow(cell) == [err |-> "runtime_error", cell |-> cell]

\* A missing text that is left as it is when errors are skipped.
set_missing_keep(cell, skip_errors, default_value) ==
  IF skip_errors THEN CellSet(cell) ELSE CellThrow(cell)

\* A text that is empty or NA: the default, or a runtime_error.
set_missing(cell, skip_errors, default_value) ==
  IF skip_errors THEN CellSet(default_value) ELSE CellThrow(cell)

\* The catch block: the cell holds now when the exception is caught.
set_caught(now, skip_errors, default_value) ==
  IF skip_errors THEN CellSet(default_value) ELSE CellThrow(now)

\* T = int: std::stoi assigns the cell before the test of pos throws.
set_int(r, cell, skip_errors, default_value) ==
  IF r.err # "none" THEN set_caught(cell, skip_errors, default_value)
  ELSE IF ~r.whole THEN set_caught(Int_(r.v), skip_errors, default_value)
  ELSE CellSet(Int_(r.v))

\* T = double and T = uint64_t: the value std::stod or std::stoull returns.
set_parsed(r, value, cell, skip_errors, default_value) ==
  IF r.err # "none" THEN set_caught(cell, skip_errors, default_value)
  ELSE CellSet(value)

set_bool(cell, skip_errors, default_value) ==
  IF cell.v = True_ \/ cell.v = <<"1">> THEN CellSet(Bool_(TRUE))
  ELSE IF cell.v = False_ \/ cell.v = <<"0">> THEN CellSet(Bool_(FALSE))
  ELSE set_caught(cell, skip_errors, default_value)

\* A cell that holds no text: convert_cell<T>.
set_converted(r, cell, skip_errors, default_value) ==
  IF r.err # "none" THEN set_caught(cell, skip_errors, default_value)
  ELSE CellSet(r.v)

\* The body of the loop of set_column_type for one cell.
set_cell(T, cell, skip_errors, default_value, ub) ==
  IF cell.t # "string"
  THEN set_converted(convert_cell(T, cell, ub), cell, skip_errors, default_value)
  ELSE IF IsMissingText(cell.v) THEN set_missing(cell, skip_errors, default_value)
  ELSE CASE T = "int" -> set_int(stoi(cell.v), cell, skip_errors, default_value)
         [] T = "uint64_t" ->
              set_parsed(stoull(cell.v), U64(stoull(cell.v).v), cell,
                         skip_errors, default_value)
         [] T = "double" ->
              set_parsed(stod(cell.v), stod(cell.v).v, cell,
                         skip_errors, default_value)
         [] T = "bool" -> set_bool(cell, skip_errors, default_value)
         [] T = "string" -> CellSet(cell)

\* The loop over the rows from row i, and its step once the cell of row i
\* was set (o): a throw leaves the rows after row i untouched.
RECURSIVE set_rows(_, _, _, _, _, _, _)
RECURSIVE set_row(_, _, _, _, _, _, _, _)
set_rows(T, rs, i, col_index, skip_errors, default_value, ub) ==
  IF i > Len(rs) THEN [err |-> "none", rows |-> rs]
  ELSE set_row(set_cell(T, rs[i][col_index + 1], skip_errors, default_value, ub),
               T, rs, i, col_index, skip_errors, default_value, ub)

set_row(o, T, rs, i, col_index, skip_errors, default_value, ub) ==
  IF o.err # "none"
  THEN [err |-> o.err, rows |-> [rs EXCEPT ![i][col_index + 1] = o.cell]]
  ELSE set_rows(T, [rs EXCEPT ![i][col_index + 1] = o.cell], i + 1, col_index,
                skip_errors, default_value, ub)

\* The table set_rows leaves.
SetRows(r, Tb) == Throw(r.err, Tbl(Tb.col_names, Tb.col_map, r.rows))

set_column_type(Tb, T, col_name, skip_errors, default_value, ub) ==
  IF ~Contains(Tb.col_map, col_name) THEN Throw("invalid_argument", Tb)
  ELSE SetRows(set_rows(T, Tb.rows, 1, Tb.col_map[col_name], skip_errors,
                        default_value, ub), Tb)

\* The default_value the model passes for each T.
DefaultOf(T) ==
  CASE T = "string"   -> Str(<<"n", "a">>)
    [] T = "int"      -> Int_(7)
    [] T = "double"   -> Dbl(15)
    [] T = "bool"     -> Bool_(TRUE)
    [] T = "uint64_t" -> U64(<<"7">>)

\* Cells of every alternative: missing texts, texts that are a number, a
\* number and more, a boolean and neither, and numbers of each sign.
TypeCells ==
  { EmptyStr, Str(NA_), Str(<<"1">>), Str(<<"1", "x">>), Str(<<"x">>), Str(True_),
    Int_(1), Int_(-1), Dbl(25), Dbl(-20), Bool_(FALSE),
    U64(<<"4", "2", "9", "4", "9", "6", "7", "2", "9", "6">>) }

SetColumnType(rec) ==
  /\ Defined
  /\ last = NoCall
  /\ \E T \in Types, col_name \in {A_, C_}, skip_errors \in BOOLEAN, ub \in UbU64s :
       IF ReadsPastEnd(this, Indices(this, <<col_name>>))
       THEN Undefined
       ELSE Mutate(set_column_type(this, T, col_name, skip_errors, DefaultOf(T), ub),
                   Rec(rec, "set_column_type", <<col_name>>, T,
                       IF skip_errors THEN 1 ELSE 0))

InitType ==
  /\ \E m \in 0..MaxTypeRows : \E cells \in [1..m -> TypeCells] :
       rows = [r \in 1..m |-> <<cells[r], Int_(r)>>]
  /\ col_names = <<A_, B_>>
  /\ col_map = IndexNames(EmptyMap, <<A_, B_>>, 0)
  /\ other = EmptyTable
  /\ result = EmptyTable
  /\ err = "none"
  /\ last = NoCall
  /\ ret = NoRet
  /\ sorted_by = NoSort

NextType == SetColumnType(TRUE)

SpecType == InitType /\ [][NextType]_vars

\* The cell is a missing text or does not coerce to T.
Unconvertible(T, c) ==
  MissingTextCell(c) \/ \A ub \in UbU64s : convert_cell(T, c, ub).err # "none"

\* The cell `now` is what set_column_type<T> is to make of the cell c.
ConvertedTo(T, c, now) ==
  /\ now.t = T
  /\ IF Unconvertible(T, c) THEN now = DefaultOf(T)
     ELSE \E ub \in UbU64s : now = convert_cell(T, c, ub).v

\* C18: for an existing column, set_column_type<T>(name, true, d) returns
\* and leaves in every cell of the column a T: d where the cell was a
\* missing text or could not be converted to T, the converted value
\* elsewhere; with skip_errors = false the call throws runtime_error when
\* some cell is missing or unconvertible, and converts every cell when
\* none is.
C18_SetColumnType ==
  (last.op = "set_column_type" /\ LastColKnown) =>
    LET T == last.how
        pre == last.pre.rows
        bad == {r \in DOMAIN pre : Unconvertible(T, pre[r][LastCol + 1])}
    IN  /\ col_names = last.pre.col_names
        /\ Len(rows) = Len(pre)
        /\ \A r \in DOMAIN pre : rows[r][2] = pre[r][2]
        /\ IF last.n = 1 \/ bad = {}
           THEN /\ err = "none"
                /\ \A r \in DOMAIN pre :
                     ConvertedTo(T, pre[r][LastCol + 1], rows[r][LastCol + 1])
           ELSE err = "runtime_error"

\* set_column_type<int>("a", true, 7) made the cells 1, 7, of the texts 1
\* and NA.
C18_Witness ==
  /\ last.op = "set_column_type"
  /\ last.how = "int"
  /\ last.n = 1
  /\ last.names = <<A_>>
  /\ last.pre.rows = <<<<Str(<<"1">>), Int_(1)>>, <<Str(NA_), Int_(2)>>>>
  /\ rows = <<<<Int_(1), Int_(1)>>, <<Int_(7), Int_(2)>>>>
  /\ err = "none"

-----------------------------------------------------------------------------
(* apply_to_column<T>(col_name, func) on the tables of InitType.           *)

\* The cell func returns for a value: func is any function, and the model
\* keeps the value it was applied to.
func(value) == [t |-> "func", v |-> value]

\* The try block for one cell, from what convert_cell<T> did (r): only a
\* std::runtime_error is caught, and func("") is stored then; any other
\* exception leaves the function with the cell as it was.
apply_cell(r, cell) ==
  IF r.err = "none" THEN CellSet(func(r.v))
  ELSE IF r.err = "runtime_error" THEN CellSet(func(EmptyStr))
  ELSE [err |-> r.err, cell |-> cell]

\* The loop over the rows from row i, and its step once the cell of row i
\* was handled (o).
RECURSIVE apply_rows(_, _, _, _, _)
RECURSIVE apply_row(_, _, _, _, _, _)
apply_rows(T, rs, i, col_index, ub) ==
  IF i > Len(rs) THEN [err |-> "none", rows |-> rs]
  ELSE apply_row(apply_cell(convert_cell(T, rs[i][col_index + 1], ub),
                            rs[i][col_index + 1]),
                 T, rs, i, col_index, ub)

apply_row(o, T, rs, i, col_index, ub) ==
  IF o.err # "none" THEN [err |-> o.err, rows |-> rs]
  ELSE apply_rows(T, [rs EXCEPT ![i][col_index + 1] = o.cell], i + 1,
                  col_index, ub)

apply_to_column(Tb, T, col_name, ub) ==
  IF ~Contains(Tb.col_map, col_name) THEN Throw("invalid_argument", Tb)
  ELSE SetRows(apply_rows(T, Tb.rows, 1, Tb.col_map[col_name], ub), Tb)

ApplyToColumn(rec) ==
  /\ Defined
  /\ last = NoCall
  /\ \E T \in Types, col_name \in {A_, C_}, ub \in UbU64s :
       IF ReadsPastEnd(this, Indices(this, <<col_name>>))
       THEN Undefined
       ELSE Mutate(apply_to_column(this, T, col_name, ub),
                   Rec(rec, "apply_to_column", <<col_name>>, T, 0))

NextApply == ApplyToColumn(TRUE)

SpecApply == InitType /\ [][NextApply]_vars

\* The cell `now` is what apply_to_column<T> is to make of the cell c.
AppliedTo(T, c, now) ==
  IF \A ub \in UbU64s : convert_cell(T, c, ub).err # "none"
  THEN now = func(EmptyStr)
  ELSE \E ub \in UbU64s : now = func(convert_cell(T, c, ub).v)

\* C19: apply_to_column<T>(name, fn) on an existing column returns without
\* an exception whatever the table holds, and leaves in every cell of the
\* column fn of the value the cell coerces to, or fn of the empty text
\* where the coercion to T fails.
C19_ApplyToColumn ==
  (last.op = "apply_to_column" /\ LastColKnown) =>
    /\ err = "none"
    /\ Len(rows) = Len(last.pre.rows)
    /\ \A r \in DOMAIN rows :
         AppliedTo(last.how, last.pre.rows[r][LastCol + 1], rows[r][LastCol + 1])

\* The same, on the tables where no cell of the column is a text that
\* std::stoi, std::stod or std::stoull rejects.
C19_ApplyToParsedColumn ==
  (/\ last.op = "apply_to_column"
   /\ LastColKnown
   /\ \A r \in DOMAIN last.pre.rows : \A ub \in UbU64s :
        convert_cell(last.how, last.pre.rows[r][LastCol + 1], ub).err
          \in {"none", "runtime_error"}) =>
    /\ err = "none"
    /\ Len(rows) = Len(last.pre.rows)
    /\ \A r \in DOMAIN rows :
         AppliedTo(last.how, last.pre.rows[r][LastCol + 1], rows[r][LastCol + 1])

-----------------------------------------------------------------------------
(* convert_cell<T> on the cells of a one-column table.                     *)

MaxCoerceRows == 2

\* TypeCells and the zero of each number, both booleans, texts of a
\* negative number, of a fraction, of false and of a number beyond int,
\* and a NaN.
CoerceCells ==
  TypeCells \cup
    { Int_(0), U64(<<"0">>), Bool_(TRUE), NaNDbl, Str(<<"0">>), Str(False_),
      Str(<<"-", "1">>), Str(<<"2", ".", "5">>),
      Str(<<"4", "2", "9", "4", "9", "6", "7", "2", "9", "6">>) }

\* What a call of convert_cell on the cell of row index left: the value
\* returned, or the message of the exception.
ValueInHand(r, index) ==
  [kind |-> IF r.err = "none" THEN "value" ELSE r.what, index |-> index, v |-> r.v]

Convert(r, T, index, c) ==
  /\ err' = r.err
  /\ ret' = ValueInHand(r, index)
  /\ last' = c
  /\ UNCHANGED <<col_names, col_map, rows, other, result, sorted_by>>

ConvertCell(rec) ==
  /\ Defined
  /\ last = NoCall
  /\ \E index \in DOMAIN rows, T \in Types, ub \in UbU64s :
       Convert(convert_cell(T, rows[index][1], ub), T, index,
               Rec(rec, "convert_cell", <<A_>>, T, index))

InitCoerce ==
  /\ \E m \in 1..MaxCoerceRows : \E cells \in [1..m -> CoerceCells] :
       rows = [r \in 1..m |-> <<cells[r]>>]
  /\ col_names = <<A_>>
  /\ col_map = IndexNames(EmptyMap, <<A_>>, 0)
  /\ other = EmptyTable
  /\ result = EmptyTable
  /\ err = "none"
  /\ last = NoCall
  /\ ret = NoRet
  /\ sorted_by = NoSort

NextCoerce == ConvertCell(TRUE)

SpecCoerce == InitCoerce /\ [][NextCoerce]_vars

\* The pairs (T, alternative held) that convert besides T from T and T
\* from a text.
Widenings ==
  { <<"double", "int">>, <<"double", "uint64_t">>, <<"bool", "int">>,
    <<"bool", "uint64_t">>, <<"uint64_t", "int">>, <<"uint64_t", "double">> }

\* The text is one the standard parser of T accepts (std::stoi to the end
\* of the text, std::stod, std::stoull, or one of the four boolean texts).
ParsesAs(T, str) ==
  CASE T = "int"      -> stoi(str).err = "none" /\ stoi(str).whole
    [] T = "double"   -> stod(str).err = "none"
    [] T = "uint64_t" -> stoull(str).err = "none"
    [] T = "bool"     -> str \in {True_, False_, <<"1">>, <<"0">>}

NonZero(c) == IF c.t = "int" THEN c.v # 0 ELSE c.v # <<"0">>

C20_WitnessWidening ==
  /\ last.op = "convert_cell"
  /\ \/ /\ last.how = "uint64_t"
        /\ rows[last.n][1] = Dbl(25)
        /\ ret.v = U64(<<"2">>)
     \/ /\ last.how = "bool"
        /\ rows[last.n][1] = Int_(-1)
        /\ ret.v = Bool_(TRUE)
  /\ err = "none"

-----------------------------------------------------------------------------
(* get<T>(row, col_name) on the tables of InitCoerce.                      *)

\* get<T>: the row is checked, then the column name, then the cell is
\* converted; an exception of convert_cell leaves get as it is.
get(Tb, T, row, col_name, ub) ==
  IF row < 0 \/ row >= Len(Tb.rows)
  THEN NotConverted("out_of_range", "Row index out of range")
  ELSE IF ~Contains(Tb.col_map, col_name)
  THEN NotConverted("invalid_argument", "Column name not found")
  ELSE convert_cell(T, Tb.rows[row + 1][Tb.col_map[col_name] + 1], ub)

Get(rec) ==
  /\ Defined
  /\ last = NoCall
  /\ \E row \in -1..Len(rows), col_name \in {A_, C_}, T \in Types, ub \in UbU64s :
       Convert(get(this, T, row, col_name, ub), T, row,
               Rec(rec, "get", <<col_name>>, T, row))

NextGet == Get(TRUE)

SpecGet == InitCoerce /\ [][NextGet]_vars

\* The row index of the last call is one of a row of the table.
LastRowValid == last.n >= 0 /\ last.n < Len(last.pre.rows)

\* The cell the last call of get addressed does not convert to T.
LastCellUnconvertible ==
  \A ub \in UbU64s :
    convert_cell(last.how, last.pre.rows[last.n + 1][LastCol + 1], ub).err # "none"

\* C21: get<T>(row, name) throws out_of_range exactly when the row index
\* is invalid, invalid_argument exactly when the row is valid and the
\* column unknown, and runtime_error whenever row and column are valid
\* and the cell does not convert to T.
C21_GetErrorKinds ==
  last.op = "get" =>
    /\ (err = "out_of_range") <=> ~LastRowValid
    /\ (err = "invalid_argument") <=> (LastRowValid /\ ~LastColKnown)
    /\ (LastRowValid /\ LastColKnown /\ LastCellUnconvertible) =>
         err = "runtime_error"

\* The same, for the cells that are not a text std::stoi, std::stod or
\* std::stoull rejects.
C21_GetErrorKindsParsed ==
  (/\ last.op = "get"
   /\ (LastRowValid /\ LastColKnown) =>
        \A ub \in UbU64s :
          convert_cell(last.how, last.pre.rows[last.n + 1][LastCol + 1], ub).err
            \in {"none", "runtime_error"}) =>
    /\ (err = "out_of_range") <=> ~LastRowValid
    /\ (err = "invalid_argument") <=> (LastRowValid /\ ~LastColKnown)
    /\ (LastRowValid /\ LastColKnown /\ LastCellUnconvertible) =>
         err = "runtime_error"

-----------------------------------------------------------------------------
(* Row and cell views: Row, CellAccess, CellProxy and CellAssigner hold a  *)
(* row index (and a column index) into the table they were taken from.     *)

MaxViewRows == 2

ViewKinds == {"Row", "CellAccess", "CellProxy", "CellAssigner"}

\* A view in hand: its class, its row_index and, for the two cell views,
\* its col_index; col_name is the name the cell view was obtained by, which
\* the view itself does not keep.
View(kind, row_index, col_index, col_name) ==
  [kind |-> kind, index |-> row_index, col |-> col_index, name |-> col_name,
   v |-> EmptyStr]

\* What an access through a view did: the exception, the table and the
\* value read.
Accessed(e, Tb, v) == [err |-> e, t |-> Tb, v |-> v]

Invalid_cell == <<"I", "n", "v", "a", "l", "i", "d", " ", "c", "e", "l", "l">>

\* What the build may make of an assignment to a cell that is not there:
\* it goes on (the write lands outside the table) or it is stopped.
UbWrites == {"none", "undefined"}

\* CellAccess::operator CellValue().
cell_access_read(Tb, row_index, col_index) ==
  IF row_index >= Len(Tb.rows) THEN Accessed("out_of_range", Tb, EmptyStr)
  ELSE IF col_index >= Len(Tb.rows[row_index + 1])
  THEN Accessed("out_of_range", Tb, EmptyStr)
  ELSE Accessed("none", Tb, Tb.rows[row_index + 1][col_index + 1])

\* rows[row_index][col_index] = value
assign(Tb, row_index, col_index, value) ==
  Tbl(Tb.col_names, Tb.col_map,
      [Tb.rows EXCEPT ![row_index + 1][col_index + 1] = value])

\* CellAccess::operator=.
cell_access_write(Tb, row_index, col_index, value) ==
  IF row_index >= Len(Tb.rows) THEN Accessed("out_of_range", Tb, EmptyStr)
  ELSE IF col_index >= Len(Tb.rows[row_index + 1])
  THEN Accessed("out_of_range", Tb, EmptyStr)
  ELSE Accessed("none", assign(Tb, row_index, col_index, value), value)

\* operator<< of a CellAssigner: the text "Invalid cell" when an index is
\* out of range, and no exception.
cell_assigner_print(Tb, row_index, col_index) ==
  IF row_index >= Len(Tb.rows) \/ col_index >= Len(Tb.col_names)
  THEN Accessed("none", Tb, Str(Invalid_cell))
  ELSE Accessed("none", Tb, Str(cell_to_string(Tb.rows[row_index + 1][col_index + 1])))

\* CellAssigner::operator=: no test of either index; an assignment to a
\* cell that is not there is undefined behaviour (ub).
cell_assigner_write(Tb, row_index, col_index, value, ub) ==
  IF row_index >= Len(Tb.rows) THEN Accessed(ub, Tb, EmptyStr)
  ELSE IF col_index >= Len(Tb.rows[row_index + 1]) THEN Accessed(ub, Tb, EmptyStr)
  ELSE Accessed("none", assign(Tb, row_index, col_index, value), value)

\* A read through a view; col_name is the name given to operator[] of a
\* Row or a CellProxy.
read_view(Tb, view, col_name) ==
  CASE view.kind = "Row" ->
         IF ~Contains(Tb.col_map, col_name)
         THEN Accessed("invalid_argument", Tb, EmptyStr)
         ELSE cell_access_read(Tb, view.index, Tb.col_map[col_name])
    [] view.kind = "CellAccess" -> cell_access_read(Tb, view.index, view.col)
    [] view.kind = "CellProxy" ->
         IF view.index >= Len(Tb.rows) THEN Accessed("out_of_range", Tb, EmptyStr)
         ELSE IF ~Contains(Tb.col_map, col_name)
         THEN Accessed("invalid_argument", Tb, EmptyStr)
         ELSE cell_assigner_print(Tb, view.index, Tb.col_map[col_name])
    [] view.kind = "CellAssigner" -> cell_assigner_print(Tb, view.index, view.col)

\* A write of value through a view.
write_view(Tb, view, col_name, value, ub) ==
  CASE view.kind = "Row" ->
         IF ~Contains(Tb.col_map, col_name)
         THEN Accessed("invalid_argument", Tb, EmptyStr)
         ELSE cell_access_write(Tb, view.index, Tb.col_map[col_name], value)
    [] view.kind = "CellAccess" ->
         cell_access_write(Tb, view.index, view.col, value)
    [] view.kind = "CellProxy" ->
         IF view.index >= Len(Tb.rows) THEN Accessed("out_of_range", Tb, EmptyStr)
         ELSE IF ~Contains(Tb.col_map, col_name)
         THEN Accessed("invalid_argument", Tb, EmptyStr)
         ELSE cell_assigner_write(Tb, view.index, Tb.col_map[col_name], value, ub)
    [] view.kind = "CellAssigner" ->
         cell_assigner_write(Tb, view.index, view.col, value, ub)

\* get_row(index), get_row(index)[col_name], (*this)[index] and
\* (*this)[index][col_name], for a row of the table and one of its names.
TakeView(rec) ==
  /\ Defined
  /\ last = NoCall
  /\ ret = NoRet
  /\ \E kind \in ViewKinds, index \in 0..(Len(rows) - 1), col_name \in DOMAIN col_map :
       ret' = View(kind, index,
                   IF kind \in {"CellAccess", "CellAssigner"}
                   THEN col_map[col_name] ELSE 0,
                   IF kind \in {"CellAccess", "CellAssigner"}
                   THEN col_name ELSE <<>>)
  /\ UNCHANGED <<col_names, col_map, rows, other, result, err, last, sorted_by>>

\* A call that changes the table and leaves what is in hand (a view, a
\* file) as it is.
Changed(o, c) ==
  /\ col_names' = o.t.col_names
  /\ col_map' = o.t.col_map
  /\ rows' = o.t.rows
  /\ err' = o.err
  /\ last' = c
  /\ UNCHANGED <<other, result, ret, sorted_by>>

ChangeTable(rec) ==
  /\ Defined
  /\ last = NoCall
  /\ ret.kind \in ViewKinds
  /\ \/ \E index \in 0..(Len(rows) - 1) :
          Changed(delete_row(this, index), Rec(rec, "delete_row", <<>>, "", index))
     \/ Changed(dropna(this, <<>>), Rec(rec, "dropna", <<>>, "", 0))
     \/ Changed(drop_duplicates(this, <<>>), Rec(rec, "drop_duplicates", <<>>, "", 0))
     \/ \E n \in {0, 2} :
          Changed(keep_every_nth_row(this, n),
                  Rec(rec, "keep_every_nth_row", <<>>, "", n))
     \/ \E col_name \in DOMAIN col_map :
          Changed(delete_column(this, col_name),
                  Rec(rec, "delete_column", <<col_name>>, "", 0))

\* The table and the view after an access; the call record keeps in how
\* the call that changed the table since the view was taken.
Access(o, c) ==
  /\ col_names' = o.t.col_names
  /\ col_map' = o.t.col_map
  /\ rows' = o.t.rows
  /\ err' = o.err
  /\ ret' = [ret EXCEPT !.v = o.v]
  /\ last' = c
  /\ UNCHANGED <<other, result, sorted_by>>

\* The names an access gives to operator[]: none for a cell view.
AccessNames == IF ret.kind \in {"Row", "CellProxy"} THEN {A_, B_, C_} ELSE {<<>>}

ReadView(rec) ==
  /\ Defined
  /\ ret.kind \in ViewKinds
  /\ last.op \notin {"view_read", "view_write"}
  /\ \E col_name \in AccessNames :
       Access(read_view(this, ret, col_name),
              Rec(rec, "view_read", <<col_name>>, last.op, ret.index))

WriteView(rec) ==
  /\ Defined
  /\ ret.kind \in ViewKinds
  /\ last.op \notin {"view_read", "view_write"}
  /\ \E col_name \in AccessNames, ub \in UbWrites :
       Access(write_view(this, ret, col_name, Int_(9), ub),
              Rec(rec, "view_write", <<col_name>>, last.op, ret.index))

\* Rows of three cells: one with a missing text, and two that agree on
\* no cell.
ViewRows ==
  { <<Int_(1), Int_(2), Int_(3)>>, <<EmptyStr, Int_(5), Int_(6)>>,
    <<Int_(4), Int_(5), Int_(6)>> }

InitView ==
  /\ \E m \in 1..MaxViewRows : rows \in [1..m -> ViewRows]
  /\ col_names = <<A_, B_, C_>>
  /\ col_map = IndexNames(EmptyMap, <<A_, B_, C_>>, 0)
  /\ other = EmptyTable
  /\ result = EmptyTable
  /\ err = "none"
  /\ last = NoCall
  /\ ret = NoRet
  /\ sorted_by = NoSort

NextView == TakeView(TRUE) \/ ChangeTable(TRUE) \/ ReadView(TRUE) \/ WriteView(TRUE)

SpecView == InitView /\ [][NextView]_vars

\* The last call was an access through a view whose row index is not
\* below the row count, after a call that removes rows.
StaleRowAccess ==
  /\ last.op \in {"view_read", "view_write"}
  /\ last.how \in {"delete_row", "dropna", "drop_duplicates", "keep_every_nth_row"}
  /\ last.n >= Len(last.pre.rows)

\* C22: a read or a write through a Row, CellAccess, CellProxy or
\* CellAssigner whose row index is no longer below the number of rows,
\* after delete_row, dropna, drop_duplicates or keep_every_nth_row,
\* throws out_of_range and changes no cell.
C22_StaleViewRaises ==
  StaleRowAccess =>
    /\ err = "out_of_range"
    /\ this = last.pre

\* The same for the views that are not a CellAssigner, with a name of the
\* table given to a Row.
C22_StaleCheckedViewRaises ==
  (/\ StaleRowAccess
   /\ ret.kind # "CellAssigner"
   /\ ret.kind = "Row" => Contains(last.pre.col_map, last.names[1])) =>
    /\ err = "out_of_range"
    /\ this = last.pre


\* The last call was an access through a CellAccess obtained by a name,
\* after delete_column removed another column.
AccessAfterOtherColumnDeleted ==
  /\ last.op \in {"view_read", "view_write"}
  /\ last.how = "delete_column"
  /\ ret.kind = "CellAccess"
  /\ Contains(last.pre.col_map, ret.name)
  /\ last.n < Len(last.pre.rows)

\* C30: after delete_column removed a column other than C, a read through
\* a CellAccess obtained from a Row by the name C returns the cell of
\* column C in its row, and a write through it changes that cell and no
\* other.
C30_CellViewFollowsName ==
  AccessAfterOtherColumnDeleted =>
    /\ err = "none"
    /\ last.op = "view_read" =>
         /\ ret.v = last.pre.rows[last.n + 1][last.pre.col_map[ret.name] + 1]
         /\ this = last.pre
    /\ last.op = "view_write" =>
         this = assign(last.pre, last.n, last.pre.col_map[ret.name], Int_(9))

\* The same when the column removed stood after C.
C30_CellViewBeforeDeleted ==
  (/\ AccessAfterOtherColumnDeleted
   /\ ret.col = last.pre.col_map[ret.name]) =>
    /\ err = "none"
    /\ last.op = "view_read" =>
         /\ ret.v = last.pre.rows[last.n + 1][last.pre.col_map[ret.name] + 1]
         /\ this = last.pre
    /\ last.op = "view_write" =>
         this = assign(last.pre, last.n, last.pre.col_map[ret.name], Int_(9))

-----------------------------------------------------------------------------
(* read_file into a table that has columns already.                        *)

MaxAppendRows == 1
MaxAppendLines == 2

\* Files with a header a, a,b (quoted), a,a, b or an empty one, and the
\* files that are not there or hold no line.
AppendFiles ==
  {[exists |-> FALSE, lines |-> <<>>], [exists |-> TRUE, lines |-> <<>>]}
  \cup {[exists |-> TRUE, lines |-> <<h>> \o d] :
          h \in HeaderLines \cup {<<"b">>}, d \in SeqsUpTo(DataLines, MaxAppendLines)}

\* The file on disk the next read_file is given.
FileOnDisk(file) == [kind |-> "disk", index |-> 0, v |-> file]

ReadMore(rec) ==
  /\ Defined
  /\ last = NoCall
  /\ ret.kind = "disk"
  /\ Changed(read_file(this, ret.v), Rec(rec, "read_file", <<>>, "", 0))

InitAppend ==
  /\ col_names \in {<<A_>>, <<A_, B_>>, <<B_, A_>>}
  /\ col_map = IndexNames(EmptyMap, col_names, 0)
  /\ \E m \in 0..MaxAppendRows : \E cells \in [1..m -> {Int_(7), EmptyStr}] :
       rows = [r \in 1..m |-> [c \in DOMAIN col_names |-> cells[r]]]
  /\ \E file \in AppendFiles : ret = FileOnDisk(file)
  /\ other = EmptyTable
  /\ result = EmptyTable
  /\ err = "none"
  /\ last = NoCall
  /\ sorted_by = NoSort

NextAppend == ReadMore(TRUE)

SpecAppend == InitAppend /\ [][NextAppend]_vars

\* The header of the file in hand, when the file is there and has one.
HasHeader == ret.v.exists /\ ret.v.lines # <<>>

\* The names the header line of the file in hand gives, each without the
\* double quotes around it.
HeaderNames ==
  LET fields == split(Head(ret.v.lines))
  IN  [i \in DOMAIN fields |-> strip_quotes(fields[i])]

\* C23: read_file on a table with columns throws runtime_error and leaves
\* columns and rows as they were when the header of the file differs from
\* the column names in length or in an element; when it is the same, the
\* rows of the file follow the rows the table had, in the order of the
\* file, cell by cell what parse_cell makes of the fields.
C23_ReadFileAppends ==
  (last.op = "read_file" /\ HasHeader) =>
    IF HeaderNames # last.pre.col_names
    THEN err = "runtime_error" /\ this = last.pre
    ELSE LET data == Tail(ret.v.lines)
             old == Len(last.pre.rows)
         IN  /\ err = "none"
             /\ col_names = last.pre.col_names
             /\ col_map = last.pre.col_map
             /\ Len(rows) = old + Len(data)
             /\ SubSeq(rows, 1, old) = last.pre.rows
             /\ \A j \in DOMAIN data : \A k \in DOMAIN split(data[j]) :
                  rows[old + j][k] = parse_cell(strip_quotes(split(data[j])[k]))

\* A file of header "a",b and two different lines was read into a table
\* of columns a, b that had a row.
C23_Witness ==
  /\ last.op = "read_file"
  /\ HasHeader
  /\ last.pre.col_names = <<A_, B_>>
  /\ Len(last.pre.rows) = 1
  /\ Len(rows) = 3
  /\ rows[2] # rows[3]
  /\ err = "none"

-----------------------------------------------------------------------------
(* filter_rows and filter_table with the same predicate, on the tables of  *)
(* InitType.                                                               *)

\* What filter_rows(predicate) returned, with the predicate it was given
\* (the set of row indices on which the predicate is true).
RowsInHand(matching_rows, pred) ==
  [kind |-> "matching_rows", index |-> 0, v |-> matching_rows, pred |-> pred]

Filtered(o, matching_rows, pred, c) ==
  /\ result' = o.t
  /\ err' = o.err
  /\ ret' = RowsInHand(matching_rows, pred)
  /\ last' = c
  /\ UNCHANGED <<col_names, col_map, rows, other, sorted_by>>

\* filter_rows(predicate) and then filter_table(predicate).
FilterRowsAndTable(rec) ==
  /\ Defined
  /\ last = NoCall
  /\ \E pred \in SUBSET (0..(Len(rows) - 1)) :
       Filtered(filter_table(this, pred), filter_rows(this, pred), pred,
                Rec(rec, "filter_table", <<>>, "", 0))

NextFilter == FilterRowsAndTable(TRUE)

SpecFilter == InitType /\ [][NextFilter]_vars

\* C24: filter_table(p) has the column names of the table in their order,
\* and its j-th row is the row of the table at the index filter_rows(p)[j],
\* where filter_rows(p) lists in increasing order every row index on which
\* p is true; the table is as it was.
C24_FilterTableAgreesWithFilterRows ==
  last.op = "filter_table" =>
    /\ err = "none"
    /\ this = last.pre
    /\ Range(ret.v) = ret.pred
    /\ \A j, k \in DOMAIN ret.v : j < k => ret.v[j] < ret.v[k]
    /\ result.col_names = col_names
    /\ Len(result.rows) = Len(ret.v)
    /\ \A j \in DOMAIN ret.v : result.rows[j] = rows[ret.v[j] + 1]

\* A predicate true on the second of two rows that differ, and on no
\* other.
C24_Witness ==
  /\ last.op = "filter_table"
  /\ Len(rows) = 2
  /\ rows[1] # rows[2]
  /\ ret.pred = {1}
  /\ result.rows = <<rows[2]>>

-----------------------------------------------------------------------------
(* add_column and then delete_column of the same name, on the tables       *)
(* read_file makes of the files of AppendFiles; other is a copy of the     *)
(* table kept from before the two calls.                                   *)

AddNewColumn(rec) ==
  /\ Defined
  /\ last = NoCall
  /\ \E col_name \in {A_, B_, C_}, default_value \in CellInputs :
       Changed(add_column(this, col_name, default_value),
               Rec(rec, "add_column", <<col_name>>, "", 0))

\* delete_column of the name the add_column before it was given.
DeleteAddedColumn(rec) ==
  /\ Defined
  /\ last.op = "add_column"
  /\ err = "none"
  /\ IF ReadsPastEnd(this, Indices(this, last.names))
     THEN Undefined
     ELSE Changed(delete_column(this, last.names[1]),
                  Rec(rec, "delete_column", last.names, "add_column", 0))

InitAddDelete ==
  /\ \E file \in AppendFiles :
       /\ col_names = read_file(EmptyTable, file).t.col_names
       /\ col_map = read_file(EmptyTable, file).t.col_map
       /\ rows = read_file(EmptyTable, file).t.rows
  /\ other = this
  /\ result = EmptyTable
  /\ err = "none"
  /\ last = NoCall
  /\ ret = NoRet
  /\ sorted_by = NoSort

NextAddDelete == AddNewColumn(TRUE) \/ DeleteAddedColumn(TRUE)

SpecAddDelete == InitAddDelete /\ [][NextAddDelete]_vars

\* After add_column of a new name every column the table had gives, in
\* every row, the cell it gave before.
OldColumnsKept ==
  \A n \in DOMAIN other.col_map :
    /\ Contains(col_map, n)
    /\ \A r \in DOMAIN other.rows :
         rows[r][col_map[n] + 1] = other.rows[r][other.col_map[n] + 1]

\* C25: add_column of a name the table has not, followed by delete_column
\* of that name, leaves the column names, the map from names to indices
\* and every row as they were; and after the add_column alone every
\* column the table had still gives its cell in every row.
C25_AddThenDeleteRestores ==
  /\ (last.op = "add_column" /\ err = "none") => OldColumnsKept
  /\ (last.op = "delete_column" /\ last.how = "add_column") =>
       err = "none" /\ this = other

\* The same on the tables whose rows all have as many cells as there are
\* column names.
C25_AddThenDeleteRestoresWellFormed ==
  RowsMatchColumns(other) =>
    /\ (last.op = "add_column" /\ err = "none") => OldColumnsKept
    /\ (last.op = "delete_column" /\ last.how = "add_column") =>
         err = "none" /\ this = other

-----------------------------------------------------------------------------
(* The alternative parse_cell gives an integer text (under SpecCodec).     *)

\* The text parse_cell was last given, and the cell it returned.
ParsedText == last.names[1]

ParsedCell == rows[Len(rows)][1]

\* The text is a minus sign followed by decimal digits.
NegativeDecimal(s) == Len(s) > 1 /\ Head(s) = "-" /\ AllDigits(Tail(s))

\* C26: parse_cell returns a uint64_t only for a text of decimal digits
\* whose value exceeds INT_MAX and is at most 2^64 - 1, and the uint64_t
\* is that value; a text of digits, or of a minus sign and digits, whose
\* value is within the range of int gives an int; a minus sign and digits
\* of a value below INT_MIN never give a uint64_t.
C26_ParseIntegerVariants ==
  last.op = "parse_cell" =>
    /\ ParsedCell.t = "uint64_t" =>
         /\ AllDigits(ParsedText)
         /\ ~DigitsLE(StripZeros(ParsedText), INT_MAX_DIGITS)
         /\ DigitsLE(StripZeros(ParsedText), ULLONG_MAX_DIGITS)
         /\ ParsedCell.v = StripZeros(ParsedText)
    /\ (AllDigits(ParsedText) /\ DigitsLE(StripZeros(ParsedText), INT_MAX_DIGITS)) =>
         ParsedCell = Int_(DigitsToInt(ParsedText, 1, 0))
    /\ (NegativeDecimal(ParsedText)
        /\ DigitsLE(StripZeros(Tail(ParsedText)), INT_MIN_DIGITS)) =>
         ParsedCell = Int_(DigitsToInt(Tail(ParsedText), -1, 0))
    /\ (NegativeDecimal(ParsedText)
        /\ ~DigitsLE(StripZeros(Tail(ParsedText)), INT_MIN_DIGITS)) =>
         ParsedCell.t # "uint64_t"

\* The same for the texts that do not start with a minus sign.
C26_ParseUnsignedVariants ==
  (last.op = "parse_cell" /\ ~NegativeDecimal(ParsedText)) =>
    /\ ParsedCell.t = "uint64_t" =>
         /\ AllDigits(ParsedText)
         /\ ~DigitsLE(StripZeros(ParsedText), INT_MAX_DIGITS)
         /\ DigitsLE(StripZeros(ParsedText), ULLONG_MAX_DIGITS)
         /\ ParsedCell.v = StripZeros(ParsedText)
    /\ (AllDigits(ParsedText) /\ DigitsLE(StripZeros(ParsedText), INT_MAX_DIGITS)) =>
         ParsedCell = Int_(DigitsToInt(ParsedText, 1, 0))

-----------------------------------------------------------------------------
(* The exceptions of sort_by_column (under SpecSort).                      *)

\* Some cell of column c of the rows rs does not convert to T.
SomeUnconvertible(T, rs, c) ==
  \E r \in DOMAIN rs : \A ub \in UbU64s :
    convert_cell(T, rs[r][c + 1], ub).err # "none"

\* C27: sort_by_column<T>(name, ascending) throws runtime_error whenever a
\* cell of the named column does not convert to T, whatever the number of
\* rows (none and one included), and throws invalid_argument only when
\* the column does not exist.
C27_SortErrorKinds ==
  last.op = "sort_by_column" =>
    /\ (LastColKnown /\ SomeUnconvertible(last.how, last.pre.rows, LastCol)) =>
         err = "runtime_error"
    /\ err = "invalid_argument" => ~LastColKnown

\* The same on tables of two rows or more whose cells convert or fail
\* with a runtime_error.
C27_SortErrorKindsCompared ==
  (/\ last.op = "sort_by_column"
   /\ Len(last.pre.rows) >= 2
   /\ LastColKnown =>
        \A r \in DOMAIN last.pre.rows : \A ub \in UbU64s :
          convert_cell(last.how, last.pre.rows[r][LastCol + 1], ub).err
            \in {"none", "runtime_error"}) =>
    /\ (LastColKnown /\ SomeUnconvertible(last.how, last.pre.rows, LastCol)) =>
         err = "runtime_error"
    /\ err = "invalid_argument" => ~LastColKnown

-----------------------------------------------------------------------------
(* remove_rows_if(predicate) on the tables of InitType.  The predicate is  *)
(* given by what it does on each row: it returns true ("remove"), returns  *)
(* false ("keep") or throws ("throw").                                     *)

PredicateOutcomes == {"remove", "keep", "throw"}

\* The loop of remove_rows_if from the zero-based row i: a row kept is
\* moved into new_rows, which leaves it empty in rows; a throw of the
\* predicate leaves the function before rows is assigned.
RECURSIVE remove_rows_from(_, _, _, _)
remove_rows_from(rs, new_rows, predicate, i) ==
  IF i >= Len(rs) THEN [err |-> "none", rows |-> new_rows]
  ELSE IF predicate[i + 1] = "throw" THEN [err |-> "runtime_error", rows |-> rs]
  ELSE IF predicate[i + 1] = "remove"
  THEN remove_rows_from(rs, new_rows, predicate, i + 1)
  ELSE remove_rows_from([rs EXCEPT ![i + 1] = <<>>], Append(new_rows, rs[i + 1]),
                        predicate, i + 1)

remove_rows_if(Tb, predicate) ==
  SetRows(remove_rows_from(Tb.rows, <<>>, predicate, 0), Tb)

\* The predicate the last remove_rows_if was given.
PredicateInHand(predicate) ==
  [kind |-> "predicate", index |-> 0, v |-> predicate]

Removed(o, predicate, c) ==
  /\ rows' = o.t.rows
  /\ err' = o.err
  /\ ret' = PredicateInHand(predicate)
  /\ last' = c
  /\ UNCHANGED <<col_names, col_map, other, result, sorted_by>>

RemoveRowsIf(rec) ==
  /\ Defined
  /\ last = NoCall
  /\ \E predicate \in [DOMAIN rows -> PredicateOutcomes] :
       Removed(remove_rows_if(this, predicate), predicate,
               Rec(rec, "remove_rows_if", <<>>, "", 0))

NextRemove == RemoveRowsIf(TRUE)

SpecRemove == InitType /\ [][NextRemove]_vars

\* C28: when the predicate given to remove_rows_if throws on some row,
\* every row of the table still has as many cells as there are column
\* names afterwards: no row the predicate had said to keep is left empty.
C28_RemoveRowsIfThrowKeepsRows ==
  (last.op = "remove_rows_if" /\ err # "none") => RowsMatchColumns(this)

\* When the predicate throws on no row, the rows it said to keep are
\* left, in their order.
C28_RemoveRowsIfKeeps ==
  (last.op = "remove_rows_if" /\ \A r \in DOMAIN ret.v : ret.v[r] # "throw") =>
    /\ err = "none"
    /\ rows = filter_table(last.pre, {r - 1 : r \in {q \in DOMAIN ret.v : ret.v[q] = "keep"}}).t.rows

-----------------------------------------------------------------------------
(* dropna, drop_duplicates and fillna given a list with a name the table   *)
(* has not, on the tables of InitDropNa.                                   *)

\* Column lists with the unknown name c alone, first, last and between
\* two names, and lists of known names.
UnknownLists ==
  { <<C_>>, <<C_, A_>>, <<A_, C_>>, <<A_, C_, B_>>, <<A_>>, <<A_, B_>> }

DropNaNamed(rec) ==
  /\ Defined
  /\ last = NoCall
  /\ \E columns \in UnknownLists :
       IF AllKnown(this, columns) /\ DropNaReadsPastEnd(this, columns)
       THEN Undefined
       ELSE Mutate(dropna(this, columns), Rec(rec, "dropna", columns, "", 0))

DropDuplicatesNamed(rec) ==
  /\ Defined
  /\ last = NoCall
  /\ \E columns \in UnknownLists :
       IF AllKnown(this, columns) /\ ReadsPastEnd(this, Indices(this, columns))
       THEN Undefined
       ELSE Mutate(drop_duplicates(this, columns),
                   Rec(rec, "drop_duplicates", columns, "", 0))

FillNaNamed(rec) ==
  /\ Defined
  /\ last = NoCall
  /\ \E columns \in UnknownLists, fill_value \in {Int_(0)} :
       IF ReadsPastEnd(this, Indices(this, KnownPrefix(this, columns)))
       THEN Undefined
       ELSE Mutate(fillna(this, columns, fill_value),
                   Rec(rec, "fillna", columns, "", 0))

NextNamed == DropNaNamed(TRUE) \/ DropDuplicatesNamed(TRUE) \/ FillNaNamed(TRUE)

SpecNamed == InitDropNa /\ [][NextNamed]_vars

\* The last call was given a list with a name the table has not.
LastListHasUnknown ==
  \E k \in DOMAIN last.names : ~Contains(last.pre.col_map, last.names[k])

\* C29: dropna, drop_duplicates and fillna given a column list with an
\* unknown name, at any position of the list, throw invalid_argument and
\* leave the rows of the table exactly as they were.
C29_UnknownNameLeavesRows ==
  (/\ last.op \in {"dropna", "drop_duplicates", "fillna"}
   /\ LastListHasUnknown) =>
    /\ err = "invalid_argument"
    /\ rows = last.pre.rows

\* The same for dropna and drop_duplicates alone.
C29_UnknownNameLeavesRowsChecked ==
  (/\ last.op \in {"dropna", "drop_duplicates"}
   /\ LastListHasUnknown) =>
    /\ err = "invalid_argument"
    /\ rows = last.pre.rows

\* The same for fillna when the unknown name is the first of the list.
C29_UnknownFirstLeavesRows ==
  (/\ last.op = "fillna"
   /\ LastListHasUnknown
   /\ ~Contains(last.pre.col_map, last.names[1])) =>
    /\ err = "invalid_argument"
    /\ rows = last.pre.rows

=============================================================================
